---- MODULE Spec2Model ----
(***************************************************************************)
(* A model of the mini-lsm storage engine: the block and sorted-run byte   *)
(* formats, the iterator stack (block, sorted run, memtable, merge,        *)
(* two-merge, LSM, fused) and the engine state machine (put, delete, get,  *)
(* scan, freeze, flush).  Keys and values are byte sequences; a block and  *)
(* a sorted-run file are sequences of bytes, encoded and decoded as the    *)
(* code does it.  Rust indices are 0-based, TLA+ sequences 1-based: an     *)
(* index i of the code is position i + 1 of the sequence.                  *)
(***************************************************************************)
EXTENDS Integers, Sequences, FiniteSets, TLC

\* ------------------------------------------------------------------ bounds

\* The number of put/delete calls of a run of the model.
MaxPuts == 3
\* The largest memtable id next_sst_id hands out (the number of freezes).
MaxId == 2
\* options.target_sst_size of the "small" configuration: two one-byte
\* entries overflow it.
TargetSmall == 3
\* options.target_sst_size of the "large" configuration: a block of that
\* size takes two one-byte entries.
TargetLarge == 18
\* The number of next() calls a caller makes on an iterator that is not valid.
MaxAfterEnd == 2
\* The number of iterators given to a merge.
MaxInputs == 3
\* The number of add calls made on one BlockBuilder.
MaxAdds == 3
\* The largest id of a flushed memtable whose file is named.
MaxNameId == 10000
\* The number of threads that call the engine.
NumThreads == 2
\* The length of the long value: with a one-byte key its entry takes 65536
\* bytes of a block.
BigLen == 65531

\* The keys and values the callers use (the empty value is the tombstone).
Keys == {<<1>>, <<2>>, <<3>>}
Values == {<<>>, <<7>>}
\* The keys of the lower bounds of a scan: one key of Keys lies below it, one
\* on it and one above it.
LowerKeys == {<<2>>}
\* The keys of the upper bounds of a scan: keys lie below, on and above.
UpperKeys == {<<2>>, <<3>>}

\* --------------------------------------------------------------- constants

SIZEOF_U16 == 2
\* next_sst_id of a fresh engine
FirstSstId == 1
\* approximate_size of a fresh memtable
InitialApproximateSize == 1
\* target_sst_size of LsmStorageOptions::default_for_week1_test
DefaultTargetSstSize == 2097152

\* `let v = ...;` followed by Op: the value is computed once and named.
With(v, Op(_)) == Op(v)

\* ------------------------------------------------------------------- bytes

\* `n as u16`
AsU16(n) == n % 65536

\* put_u16 / u16::to_be_bytes
U16BE(n) == << (n \div 256) % 256, n % 256 >>

\* u16::from_be_bytes([b0, b1])
U16FromBE(b0, b1) == b0 * 256 + b1

\* put_u32 of `n as u32`
U32BE(n) == << (n \div 16777216) % 256, (n \div 65536) % 256, (n \div 256) % 256, n % 256 >>

\* get_u32
U32FromBE(s) == ((s[1] * 256 + s[2]) * 256 + s[3]) * 256 + s[4]

\* Ord of byte slices: lexicographic, a proper prefix is smaller.
RECURSIVE BytesCmp(_, _)
BytesCmp(a, b) ==
  IF a = <<>> /\ b = <<>> THEN "Equal"
  ELSE IF a = <<>> THEN "Less"
  ELSE IF b = <<>> THEN "Greater"
  ELSE IF Head(a) < Head(b) THEN "Less"
  ELSE IF Head(a) > Head(b) THEN "Greater"
  ELSE BytesCmp(Tail(a), Tail(b))

\* The smallest key of a non-empty set of keys.
MinKey(S) == CHOOSE k \in S : \A j \in S : BytesCmp(k, j) # "Greater"

\* ------------------------------------------------------------------- block

\* Block::encode: data, then each offset as a big-endian u16, then the count.
RECURSIVE FlatU16(_)
FlatU16(s) == IF s = <<>> THEN <<>> ELSE U16BE(Head(s)) \o FlatU16(Tail(s))

BlockEncode(blk) ==
  blk.data \o FlatU16(blk.offsets) \o U16BE(AsU16(Len(blk.offsets)))

\* Block::decode
BlockDecode(bytes) ==
  LET n == Len(bytes)
      offset_len == U16FromBE(bytes[n - 1], bytes[n])
      data_end == n - 2 - offset_len * SIZEOF_U16
      u8_offset_arr == SubSeq(bytes, data_end + 1, n - 2)
  IN [data |-> SubSeq(bytes, 1, data_end),
      offsets |-> [i \in 1..offset_len |->
                     U16FromBE(u8_offset_arr[2 * i - 1], u8_offset_arr[2 * i])]]

\* ----------------------------------------------------------- block builder

BlockBuilderNew(block_size) ==
  [offsets |-> <<>>, data |-> <<>>, block_size |-> block_size, first_key |-> <<>>]

BlockBuilderIsEmpty(b) == b.data = <<>>

RateCurrentSize(b) == SIZEOF_U16 + Len(b.offsets) * SIZEOF_U16 + Len(b.data)

\* BlockBuilder::add without `&& !self.is_empty()`: the size rule also holds
\* for the first entry.
BlockBuilderAddSized(b, key, value) ==
  IF RateCurrentSize(b) + Len(key) + Len(value) + SIZEOF_U16 * 3 > b.block_size
  THEN [accepted |-> FALSE, builder |-> b]
  ELSE [accepted |-> TRUE,
        builder |->
          [offsets |-> Append(b.offsets, AsU16(Len(b.data))),
           data |-> b.data \o U16BE(AsU16(Len(key))) \o key
                           \o U16BE(AsU16(Len(value))) \o value,
           block_size |-> b.block_size,
           first_key |-> IF BlockBuilderIsEmpty(b) THEN key ELSE b.first_key]]

\* BlockBuilder::add: [accepted, builder]
BlockBuilderAdd(b, key, value) ==
  IF /\ RateCurrentSize(b) + Len(key) + Len(value) + SIZEOF_U16 * 3 > b.block_size
     /\ ~BlockBuilderIsEmpty(b)
  THEN [accepted |-> FALSE, builder |-> b]
  ELSE [accepted |-> TRUE,
        builder |->
          [offsets |-> Append(b.offsets, AsU16(Len(b.data))),
           data |-> b.data \o U16BE(AsU16(Len(key))) \o key
                           \o U16BE(AsU16(Len(value))) \o value,
           block_size |-> b.block_size,
           first_key |-> IF BlockBuilderIsEmpty(b) THEN key ELSE b.first_key]]

BlockBuilderBuild(b) == [data |-> b.data, offsets |-> b.offsets]

\* ---------------------------------------------------------- block iterator

\* The bytes of entry idx: from its offset to the next offset or the end.
EntryAt(block, idx) ==
  LET begin_offset == block.offsets[idx + 1]
  IN IF idx + 1 >= Len(block.offsets)
     THEN SubSeq(block.data, begin_offset + 1, Len(block.data))
     ELSE SubSeq(block.data, begin_offset + 1, block.offsets[idx + 2])

DecodeKeyBaseIdx(block, idx) ==
  LET entry == EntryAt(block, idx)
      key_len == U16FromBE(entry[1], entry[2])
  IN SubSeq(entry, 3, 2 + key_len)

BlockIterInvalid(block) ==
  [block |-> block, key |-> <<>>, value_range |-> <<0, 0>>, idx |-> 0,
   first_key |-> <<>>]

DecodeBaseIdx(block, idx) ==
  [block |-> block, key |-> DecodeKeyBaseIdx(block, idx),
   value_range |-> <<0, Len(block.offsets)>>, idx |-> idx, first_key |-> <<>>]

BlockIterCreateAndSeekToFirst(block) ==
  LET res == DecodeBaseIdx(block, 0)
  IN [res EXCEPT !.idx = 0, !.first_key = res.key]

RECURSIVE BinarySearchLoop(_, _, _, _)
BinarySearchLoop(block, key, left, right) ==
  IF left <= right
  THEN LET mid == (left + right) \div 2
       IN IF BytesCmp(DecodeKeyBaseIdx(block, mid), key) = "Less"
          THEN BinarySearchLoop(block, key, mid + 1, right)
          ELSE BinarySearchLoop(block, key, left, mid - 1)
  ELSE left

BinarySearchSeekKey(block, key) ==
  BinarySearchLoop(block, key, 0, Len(block.offsets) - 1)

\* BlockIterator::create_and_seek_to_key: the key is the one found, the
\* index is left at 0.
BlockIterCreateAndSeekToKey(block, key) ==
  LET target_idx == BinarySearchSeekKey(block, key)
  IN IF target_idx >= Len(block.offsets)
     THEN BlockIterInvalid(block)
     ELSE [block |-> block, key |-> DecodeKeyBaseIdx(block, target_idx),
           value_range |-> <<0, Len(block.offsets)>>, idx |-> 0,
           first_key |-> <<>>]

BlockIterKey(it) == it.key

BlockIterValue(it) ==
  LET entry == EntryAt(it.block, it.idx)
      key_len == U16FromBE(entry[1], entry[2])
      value_len == U16FromBE(entry[SIZEOF_U16 + key_len + 1],
                             entry[1 + SIZEOF_U16 + key_len + 1])
      value_begin == 2 * SIZEOF_U16 + key_len
  IN SubSeq(entry, value_begin + 1, value_begin + value_len)

BlockIterIsValid(it) == it.idx < it.value_range[2]

BlockIterNext(it) ==
  LET moved == [it EXCEPT !.idx = it.idx + 1]
  IN IF ~BlockIterIsValid(moved)
     THEN moved
     ELSE [moved EXCEPT !.key = DecodeKeyBaseIdx(it.block, moved.idx)]

\* BlockIterator::seek_to_key
BlockIterSeekToKey(it, key) ==
  LET moved == [it EXCEPT !.idx = BinarySearchSeekKey(it.block, key)]
  IN IF ~BlockIterIsValid(moved)
     THEN moved
     ELSE [moved EXCEPT !.key = DecodeKeyBaseIdx(it.block, moved.idx)]

\* The slice of entry idx, `&block.data[begin..end]`, is within the data, and
\* the indexing of the key in it is within the slice: decode_key_base_idx
\* does not panic.
KeyReadable(block, idx) ==
  /\ idx < Len(block.offsets)
  /\ LET begin_offset == block.offsets[idx + 1]
         end_offset == IF idx + 1 >= Len(block.offsets) THEN Len(block.data)
                       ELSE block.offsets[idx + 2]
     IN /\ begin_offset <= end_offset
        /\ end_offset <= Len(block.data)
        /\ end_offset - begin_offset >= 2
        /\ 2 + U16FromBE(block.data[begin_offset + 1], block.data[begin_offset + 2])
             <= end_offset - begin_offset

\* The same for BlockIterator::value: the slice of the entry, the two bytes of
\* the value length and the value are within bounds.
ValueReadable(block, idx) ==
  /\ KeyReadable(block, idx)
  /\ LET begin_offset == block.offsets[idx + 1]
         end_offset == IF idx + 1 >= Len(block.offsets) THEN Len(block.data)
                       ELSE block.offsets[idx + 2]
         key_len == U16FromBE(block.data[begin_offset + 1], block.data[begin_offset + 2])
     IN /\ 2 * SIZEOF_U16 + key_len <= end_offset - begin_offset
        /\ 2 * SIZEOF_U16 + key_len
             + U16FromBE(block.data[begin_offset + SIZEOF_U16 + key_len + 1],
                         block.data[begin_offset + SIZEOF_U16 + key_len + 2])
             <= end_offset - begin_offset

\* The keys binary_search_seek_key decodes are readable.
RECURSIVE SearchReadable(_, _, _, _)
SearchReadable(block, key, left, right) ==
  IF left <= right
  THEN LET mid == (left + right) \div 2
       IN /\ KeyReadable(block, mid)
          /\ IF BytesCmp(DecodeKeyBaseIdx(block, mid), key) = "Less"
             THEN SearchReadable(block, key, mid + 1, right)
             ELSE SearchReadable(block, key, left, mid - 1)
  ELSE TRUE

\* A seek to key does not panic: the search, then the key of the entry found.
SeekReadable(block, key) ==
  /\ SearchReadable(block, key, 0, Len(block.offsets) - 1)
  /\ BinarySearchSeekKey(block, key) < Len(block.offsets)
       => KeyReadable(block, BinarySearchSeekKey(block, key))

\* BlockIterator::next does not panic: the key of the entry it moves to.
NextReadable(it) ==
  it.idx + 1 < it.value_range[2] => KeyReadable(it.block, it.idx + 1)

\* -------------------------------------------------------------- block meta

RECURSIVE EncodeMetaEntries(_)
EncodeMetaEntries(metas) ==
  IF metas = <<>> THEN <<>>
  ELSE LET m == Head(metas)
       IN U32BE(m.offset) \o U32BE(Len(m.first_key)) \o m.first_key
            \o U32BE(Len(m.last_key)) \o m.last_key
            \o EncodeMetaEntries(Tail(metas))

\* BlockMeta::encode_block_meta
EncodeBlockMeta(block_meta) ==
  U16BE(AsU16(Len(block_meta))) \o EncodeMetaEntries(block_meta)

RECURSIVE DecodeMetaEntries(_, _)
DecodeMetaEntries(buf, number) ==
  IF number = 0 THEN <<>>
  ELSE LET offset == U32FromBE(SubSeq(buf, 1, 4))
           first_key_len == U32FromBE(SubSeq(buf, 5, 8))
           first_key == SubSeq(buf, 9, 8 + first_key_len)
           rest == SubSeq(buf, 9 + first_key_len, Len(buf))
           last_key_len == U32FromBE(SubSeq(rest, 1, 4))
           last_key == SubSeq(rest, 5, 4 + last_key_len)
       IN << [offset |-> offset, first_key |-> first_key, last_key |-> last_key] >>
            \o DecodeMetaEntries(SubSeq(rest, 5 + last_key_len, Len(rest)), number - 1)

\* BlockMeta::decode_block_meta
DecodeBlockMeta(buf) ==
  DecodeMetaEntries(SubSeq(buf, 3, Len(buf)), U16FromBE(buf[1], buf[2]))

\* ------------------------------------------------------- sorted-run builder

SsTableBuilderNew(block_size) ==
  [builder |-> BlockBuilderNew(block_size), first_key |-> <<>>, last_key |-> <<>>,
   data |-> <<>>, meta |-> <<>>, block_size |-> block_size]

\* SsTableBuilder::add
SsTableBuilderAdd(sb, key, value) ==
  LET s1 == IF sb.first_key = <<>>
            THEN [sb EXCEPT !.first_key = key,
                            !.meta = Append(@, [offset |-> 0, first_key |-> key,
                                                last_key |-> <<>>])]
            ELSE sb
      r == BlockBuilderAdd(s1.builder, key, value)
      data2 == s1.data \o BlockEncode(BlockBuilderBuild(s1.builder))
      s2 == IF ~r.accepted
            THEN [s1 EXCEPT !.data = data2,
                            !.meta = Append(@, [offset |-> Len(data2), first_key |-> key,
                                                last_key |-> <<>>]),
                            !.builder = BlockBuilderAdd(BlockBuilderNew(s1.block_size),
                                                        key, value).builder]
            ELSE [s1 EXCEPT !.builder = r.builder]
  IN [s2 EXCEPT !.meta[Len(s2.meta)].last_key = key, !.last_key = key]

\* SsTableBuilder::build: the run and the bytes of its file.
SsTableBuilderBuild(sb, id) ==
  LET serialized_data == sb.data \o BlockEncode(BlockBuilderBuild(sb.builder))
      block_meta_offset == Len(serialized_data)
  IN [file |-> serialized_data \o EncodeBlockMeta(sb.meta) \o U32BE(block_meta_offset),
      size |-> Len(serialized_data \o EncodeBlockMeta(sb.meta) \o U32BE(block_meta_offset)),
      block_meta |-> sb.meta,
      block_meta_offset |-> block_meta_offset,
      id |-> id,
      first_key |-> sb.first_key,
      last_key |-> sb.last_key]

\* -------------------------------------------------------------- sorted run

\* FileObject::read: read_exact_at fails when the range passes the end.
FileRead(file, offset, len) ==
  IF offset + len > Len(file)
  THEN [status |-> "Err"]
  ELSE [status |-> "Ok", data |-> SubSeq(file, offset + 1, offset + len)]

\* SsTable::read_block: the metas are read back from the file.
ReadBlock(t, block_idx) ==
  LET meta_len == t.size - (t.block_meta_offset + 4)
      data_blocks == FileRead(t.file, t.block_meta_offset, meta_len)
  IN IF data_blocks.status # "Ok" THEN [status |-> "Err"]
     ELSE With(DecodeBlockMeta(data_blocks.data), LAMBDA metas :
       IF block_idx >= Len(metas) THEN [status |-> "Err"]
       ELSE LET blk_offset == metas[block_idx + 1].offset
                blk_len == IF block_idx = Len(metas) - 1
                           THEN t.block_meta_offset - blk_offset
                           ELSE metas[block_idx + 2].offset - blk_offset
                vec_buf == FileRead(t.file, blk_offset, blk_len)
            IN IF vec_buf.status # "Ok" THEN [status |-> "Err"]
               ELSE [status |-> "Ok", block |-> BlockDecode(vec_buf.data)])

\* SsTable::read_block_cached: read_block is evaluated in every case (it is
\* the argument of unwrap_or), and the cache, keyed by (id, block_idx), holds
\* what read_block returned for that key.
ReadBlockCached(t, block_idx) == ReadBlock(t, block_idx)

RECURSIVE BlockIdxLoop(_, _, _, _)
BlockIdxLoop(t, key, left, right) ==
  IF left <= right
  THEN LET mid == (left + right) \div 2
       IN IF /\ BytesCmp(t.block_meta[mid + 1].first_key, key) = "Less"
             /\ BytesCmp(t.block_meta[mid + 1].last_key, key) = "Less"
          THEN BlockIdxLoop(t, key, mid + 1, right)
          ELSE BlockIdxLoop(t, key, left, mid - 1)
  ELSE left

\* SsTable::find_block_idx.  block_meta.len() - 1 is a usize subtraction:
\* with no block meta it panics in a build with overflow checks and wraps to
\* -1 (as i32) in a build without.
FindBlockIdx(t, key, overflow_checks) ==
  IF Len(t.block_meta) = 0
  THEN IF overflow_checks THEN [status |-> "Panic"]
       ELSE [status |-> "Ok", idx |-> BlockIdxLoop(t, key, 0, -1)]
  ELSE [status |-> "Ok", idx |-> BlockIdxLoop(t, key, 0, Len(t.block_meta) - 1)]

\* ----------------------------------------------------- sorted-run iterator

SsTableIterCreateAndSeekToFirst(table) ==
  With(ReadBlock(table, 0), LAMBDA r :
    IF r.status # "Ok" THEN [status |-> r.status]
    ELSE [status |-> "Ok",
          it |-> [type |-> "sst", table |-> table,
                  blk_iter |-> BlockIterCreateAndSeekToFirst(r.block),
                  blk_idx |-> 0, blk_num |-> Len(table.block_meta)]])

SsTableIterCreateAndSeekToKey(table, key, overflow_checks) ==
  With(FindBlockIdx(table, key, overflow_checks), LAMBDA f :
    IF f.status # "Ok" THEN [status |-> f.status]
    ELSE With(ReadBlockCached(table, f.idx), LAMBDA r :
      IF r.status # "Ok" THEN [status |-> r.status]
      ELSE [status |-> "Ok",
            it |-> [type |-> "sst", table |-> table,
                    blk_iter |-> BlockIterCreateAndSeekToKey(r.block, key),
                    blk_idx |-> f.idx, blk_num |-> Len(table.block_meta)]]))

SsTableIterKey(it) == BlockIterKey(it.blk_iter)

SsTableIterValue(it) == BlockIterValue(it.blk_iter)

SsTableIterIsValid(it) == BlockIterIsValid(it.blk_iter)

\* SsTableIterator::next: [err, it]
SsTableIterNext(it) ==
  With(BlockIterNext(it.blk_iter), LAMBDA b :
    IF ~BlockIterIsValid(b) /\ it.blk_idx + 1 < it.blk_num
    THEN With(ReadBlock(it.table, it.blk_idx + 1), LAMBDA r :
      IF r.status # "Ok" THEN [err |-> TRUE, it |-> [it EXCEPT !.blk_iter = b]]
      ELSE [err |-> FALSE,
            it |-> [it EXCEPT !.blk_idx = it.blk_idx + 1,
                              !.blk_iter = BlockIterCreateAndSeekToFirst(r.block)]])
    ELSE [err |-> FALSE, it |-> [it EXCEPT !.blk_iter = b]])

\* SsTableIterator::seek_to_key: a block that cannot be read leaves the
\* iterator where it was.
SsTableIterSeekToKey(it, key, overflow_checks) ==
  With(FindBlockIdx(it.table, key, overflow_checks), LAMBDA f :
    IF f.status # "Ok" THEN [status |-> f.status]
    ELSE With(ReadBlockCached(it.table, f.idx), LAMBDA r :
      IF r.status = "Ok"
      THEN [status |-> "Ok",
            it |-> [it EXCEPT !.blk_idx = f.idx,
                              !.blk_iter = BlockIterCreateAndSeekToKey(r.block, key)]]
      ELSE [status |-> "Ok", it |-> it]))

\* ------------------------------------------------------------------- state

VARIABLES
  state,            \* the published LsmStorageState (the Arc behind the RwLock)
  mems,             \* the live MemTable objects, by id
  next_sst_id,      \* LsmStorageInner.next_sst_id
  target_sst_size,  \* options.target_sst_size
  flushing,         \* the memtables popped by a flush that has not installed its run
  puts,             \* the number of put/delete calls made
  ref,              \* reference: the values written under each key, in order
  flushed,          \* reference: the map of each memtable when it was flushed, by id
  get_res,          \* the last get: its key and what it returned
  scan_res          \* the last scan: its bounds, the iterator, what it emitted

vars ==
  <<state, mems, next_sst_id, target_sst_size, flushing, puts, ref, flushed,
    get_res, scan_res>>

\* Option<T>: None is <<>>, Some(x) is <<x>>.
None == <<>>
Some(x) == <<x>>

\* Bound<Bytes>
Unbounded == [kind |-> "Unbounded", key |-> <<>>]
Included(k) == [kind |-> "Included", key |-> k]
Excluded(k) == [kind |-> "Excluded", key |-> k]

\* ---------------------------------------------------------------- memtable

\* MemTable::create
MemTableCreate(id) ==
  [map |-> <<>>, id |-> id, approximate_size |-> InitialApproximateSize]

\* MemTable::get
MemTableGet(m, key) == IF key \in DOMAIN m.map THEN Some(m.map[key]) ELSE None

\* MemTable::put
MemTablePut(m, key, value) ==
  [m EXCEPT !.map = [k \in (DOMAIN m.map) \cup {key} |->
                       IF k = key THEN value ELSE m.map[k]],
            !.approximate_size = m.approximate_size + Len(key) + Len(value)]

MemTableIsEmpty(m) == DOMAIN m.map = {}

\* The keys of a map within a range (SkipMap::range).
RangeKeys(map, lower, upper) ==
  {k \in DOMAIN map :
     /\ CASE lower.kind = "Included" -> BytesCmp(k, lower.key) # "Less"
          [] lower.kind = "Excluded" -> BytesCmp(k, lower.key) = "Greater"
          [] OTHER -> TRUE
     /\ CASE upper.kind = "Included" -> BytesCmp(k, upper.key) # "Greater"
          [] upper.kind = "Excluded" -> BytesCmp(k, upper.key) = "Less"
          [] OTHER -> TRUE}

\* MemTableIterator::entry_to_item, on the keys the range has left.
EntryToItem(map, left) ==
  IF left = {} THEN << <<>>, <<>> >> ELSE << MinKey(left), map[MinKey(left)] >>

\* The step of the range cursor: the first key of the range after head, or
\* from the lower bound when the cursor has no head.
RangeStep(it) ==
  With(LET in_range == RangeKeys(mems[it.mem].map, it.lower, it.upper)
       IN IF it.head = None THEN in_range
          ELSE {k \in in_range : BytesCmp(k, it.head[1]) = "Greater"},
       LAMBDA left :
         [it EXCEPT !.head = IF left = {} THEN None ELSE Some(MinKey(left)),
                    !.item = EntryToItem(mems[it.mem].map, left)])

\* MemTable::scan
MemTableScan(mem, lower, upper) ==
  RangeStep([type |-> "mem", mem |-> mem, lower |-> lower, upper |-> upper,
             head |-> None, item |-> << <<>>, <<>> >>])

MemTableIterKey(it) == it.item[1]

MemTableIterValue(it) == it.item[2]

MemTableIterIsValid(it) == it.item[1] # <<>>

MemTableIterNext(it) == [err |-> FALSE, it |-> RangeStep(it)]

\* ------------------------------------- StorageIterator of the leaf iterators

LeafKey(it) == IF it.type = "mem" THEN MemTableIterKey(it) ELSE SsTableIterKey(it)

LeafValue(it) == IF it.type = "mem" THEN MemTableIterValue(it) ELSE SsTableIterValue(it)

LeafIsValid(it) == IF it.type = "mem" THEN MemTableIterIsValid(it) ELSE SsTableIterIsValid(it)

LeafNext(it) == IF it.type = "mem" THEN MemTableIterNext(it) ELSE SsTableIterNext(it)

\* ----------------------------------------------------------- merge iterator

\* partial_cmp with the indices compared the other way round: of two
\* wrappers on the same key the one with the larger index is the greater.
HeapWrapperCmpLargerIdx(a, b) ==
  With(BytesCmp(LeafKey(a.it), LeafKey(b.it)), LAMBDA c :
    LET d == IF c # "Equal" THEN c
             ELSE IF a.idx > b.idx THEN "Less"
             ELSE IF a.idx < b.idx THEN "Greater" ELSE "Equal"
    IN IF d = "Less" THEN "Greater" ELSE IF d = "Greater" THEN "Less" ELSE "Equal")

\* HeapWrapper::partial_cmp: by key, then by index, reversed (the heap is a
\* max-heap: the greatest wrapper has the smallest key).
HeapWrapperCmp(a, b) ==
  With(BytesCmp(LeafKey(a.it), LeafKey(b.it)), LAMBDA c :
    LET d == IF c # "Equal" THEN c
             ELSE IF a.idx < b.idx THEN "Less"
             ELSE IF a.idx > b.idx THEN "Greater" ELSE "Equal"
    IN IF d = "Less" THEN "Greater" ELSE IF d = "Greater" THEN "Less" ELSE "Equal")

\* BinaryHeap::peek: the greatest wrapper of a non-empty heap.
HeapPeek(heap) == CHOOSE w \in heap : \A o \in heap : HeapWrapperCmp(w, o) # "Less"

\* MergeIterator::create
MergeIterCreate(iters) ==
  IF iters = <<>>
  THEN [iters |-> {}, current |-> None]
  ELSE IF \A i \in 1..Len(iters) : ~LeafIsValid(iters[i])
  THEN [iters |-> {}, current |-> Some([idx |-> 0, it |-> iters[Len(iters)]])]
  ELSE With({[idx |-> i - 1, it |-> iters[i]] :
               i \in {j \in 1..Len(iters) : LeafIsValid(iters[j])}},
            LAMBDA heap :
              With(HeapPeek(heap), LAMBDA top :
                [iters |-> heap \ {top}, current |-> Some(top)]))

MergeIterKey(m) == IF m.current # None THEN LeafKey(m.current[1].it) ELSE <<>>

MergeIterValue(m) == IF m.current # None THEN LeafValue(m.current[1].it) ELSE <<>>

MergeIterIsValid(m) == IF m.current # None THEN LeafIsValid(m.current[1].it) ELSE FALSE

\* MergeIterator::next without its first loop: the heap iterators on the
\* outdated key stay on it.
SkipOutdatedNone(heap, outdated_key) == [err |-> FALSE, iters |-> heap]

\* The first loop of MergeIterator::next: advance every heap iterator that is
\* on the outdated key; [err, iters].
RECURSIVE SkipOutdated(_, _)
SkipOutdated(heap, outdated_key) ==
  IF heap = {} THEN [err |-> FALSE, iters |-> heap]
  ELSE With(HeapPeek(heap), LAMBDA inner_iter :
    IF LeafKey(inner_iter.it) # outdated_key
    THEN [err |-> FALSE, iters |-> heap]
    ELSE With(LeafNext(inner_iter.it), LAMBDA r :
      IF r.err
      THEN [err |-> TRUE, iters |-> heap \ {inner_iter}]
      ELSE IF ~LeafIsValid(r.it)
      THEN SkipOutdated(heap \ {inner_iter}, outdated_key)
      ELSE SkipOutdated((heap \ {inner_iter})
                          \cup {[idx |-> inner_iter.idx, it |-> r.it]},
                        outdated_key)))

\* MergeIterator::next: [err, it]
MergeIterNext(m) ==
  With(SkipOutdated(m.iters, LeafKey(m.current[1].it)), LAMBDA skipped :
    IF skipped.err
    THEN [err |-> TRUE, it |-> [iters |-> skipped.iters, current |-> m.current]]
    ELSE With(LeafNext(m.current[1].it), LAMBDA r :
      LET heap == skipped.iters
          cur_iter == [idx |-> m.current[1].idx, it |-> r.it]
          keep == [iters |-> heap, current |-> Some(cur_iter)]
      IN IF r.err THEN [err |-> TRUE, it |-> keep]
         ELSE IF heap = {} THEN [err |-> FALSE, it |-> keep]
         ELSE With(HeapPeek(heap), LAMBDA heap_top :
           IF ~LeafIsValid(r.it)
           THEN [err |-> FALSE,
                 it |-> [iters |-> heap \ {heap_top}, current |-> Some(heap_top)]]
           ELSE IF /\ HeapWrapperCmp(heap_top, cur_iter) = "Greater"
                   /\ LeafIsValid(heap_top.it)
           THEN [err |-> FALSE,
                 it |-> [iters |-> (heap \ {heap_top}) \cup {cur_iter},
                         current |-> Some(heap_top)]]
           ELSE [err |-> FALSE, it |-> keep])))

\* ------------------------------------------------------- two-merge iterator

\* The selector with `>=` for `>`: on equal keys it is B.
TwoMergeSelectB(a, b) ==
  IF MergeIterIsValid(a) /\ MergeIterIsValid(b)
  THEN IF BytesCmp(MergeIterKey(a), MergeIterKey(b)) # "Less" THEN 1 ELSE 0
  ELSE IF MergeIterIsValid(a) THEN 0 ELSE 1

\* The selector: 0 is A, 1 is B.
TwoMergeSelect(a, b) ==
  IF MergeIterIsValid(a) /\ MergeIterIsValid(b)
  THEN IF BytesCmp(MergeIterKey(a), MergeIterKey(b)) = "Greater" THEN 1 ELSE 0
  ELSE IF MergeIterIsValid(a) THEN 0 ELSE 1

\* TwoMergeIterator::create
TwoMergeCreate(a, b) == [a |-> a, b |-> b, current |-> TwoMergeSelect(a, b)]

TwoMergeKey(t) == IF t.current = 0 THEN MergeIterKey(t.a) ELSE MergeIterKey(t.b)

TwoMergeValue(t) == IF t.current = 0 THEN MergeIterValue(t.a) ELSE MergeIterValue(t.b)

TwoMergeIsValid(t) == IF t.current = 0 THEN MergeIterIsValid(t.a) ELSE MergeIterIsValid(t.b)

\* self.a.next()?: [err, it]
TwoMergeNextA(t) ==
  With(MergeIterNext(t.a), LAMBDA na : [err |-> na.err, it |-> [t EXCEPT !.a = na.it]])

\* self.b.next()?: [err, it]
TwoMergeNextB(t) ==
  With(MergeIterNext(t.b), LAMBDA nb : [err |-> nb.err, it |-> [t EXCEPT !.b = nb.it]])

\* The next() calls of the branch TwoMergeIterator::next takes: of a ("a"), of
\* b ("b"), of a and then of b ("both"), or none; [err, it]
TwoMergeAdvance(t, which) ==
  With(IF which \in {"a", "both"} THEN TwoMergeNextA(t) ELSE [err |-> FALSE, it |-> t],
       LAMBDA ra :
         IF ra.err \/ which \notin {"b", "both"} THEN ra ELSE TwoMergeNextB(ra.it))

\* TwoMergeIterator::next: [err, it]
TwoMergeNext(t) ==
  LET both == MergeIterIsValid(t.a) /\ MergeIterIsValid(t.b)
      order == BytesCmp(MergeIterKey(t.a), MergeIterKey(t.b))
      which == IF both
               THEN CASE order = "Less" -> "a"
                      [] order = "Equal" -> "both"
                      [] OTHER -> "b"
               ELSE IF MergeIterIsValid(t.a) THEN "a"
               ELSE IF MergeIterIsValid(t.b) THEN "b" ELSE "none"
  IN With(TwoMergeAdvance(t, which), LAMBDA r :
       IF r.err THEN r
       ELSE [err |-> FALSE,
             it |-> [r.it EXCEPT !.current =
                                   IF both THEN TwoMergeSelect(r.it.a, r.it.b)
                                   ELSE IF which = "a" THEN 0
                                   ELSE IF which = "b" THEN 1 ELSE @]])

\* ------------------------------------------------------------- LSM iterator

\* The tombstone loop written as an `if`: one tombstone is passed, the next
\* one is left under the cursor.
SkipDeletedOnce(inner) ==
  IF TwoMergeIsValid(inner) /\ TwoMergeValue(inner) = <<>>
  THEN With(TwoMergeNext(inner), LAMBDA r : [err |-> r.err, it |-> r.it])
  ELSE [err |-> FALSE, it |-> inner]

\* The tombstone loop of move_to_non_delete_non_overbound: [err, it]
RECURSIVE SkipDeleted(_)
SkipDeleted(inner) ==
  IF TwoMergeIsValid(inner) /\ TwoMergeValue(inner) = <<>>
  THEN With(TwoMergeNext(inner), LAMBDA r :
         IF r.err THEN [err |-> TRUE, it |-> r.it] ELSE SkipDeleted(r.it))
  ELSE [err |-> FALSE, it |-> inner]

\* LsmIterator::move_to_non_delete_non_overbound: [err, it]; a live key
\* beyond the end bound makes it return Err.
MoveToNonDeleteNonOverbound(l) ==
  With(SkipDeleted(l.inner), LAMBDA s :
    LET moved == [l EXCEPT !.inner = s.it]
        live == TwoMergeIsValid(s.it) /\ TwoMergeValue(s.it) # <<>>
    IN IF s.err THEN [err |-> TRUE, it |-> moved]
       ELSE CASE l.end_bound.kind = "Included" ->
                   [err |-> live /\ BytesCmp(TwoMergeKey(s.it), l.end_bound.key) = "Greater",
                    it |-> moved]
              [] l.end_bound.kind = "Excluded" ->
                   [err |-> live /\ BytesCmp(TwoMergeKey(s.it), l.end_bound.key) # "Less",
                    it |-> moved]
              [] OTHER -> [err |-> FALSE, it |-> moved])

\* LsmIterator::new: [err, it]
LsmIterNew(iter, end_bound) ==
  MoveToNonDeleteNonOverbound([inner |-> iter, end_bound |-> end_bound])

LsmIterIsValid(l) == TwoMergeIsValid(l.inner)

LsmIterKey(l) == TwoMergeKey(l.inner)

LsmIterValue(l) == TwoMergeValue(l.inner)

\* LsmIterator::next: [err, it]
LsmIterNext(l) ==
  With(TwoMergeNext(l.inner), LAMBDA r :
    IF r.err THEN [err |-> TRUE, it |-> [l EXCEPT !.inner = r.it]]
    ELSE MoveToNonDeleteNonOverbound([l EXCEPT !.inner = r.it]))

\* ----------------------------------------------------------- fused iterator

FusedNew(iter) == [iter |-> iter, has_errored |-> FALSE]

FusedIsValid(f) == IF f.has_errored THEN FALSE ELSE LsmIterIsValid(f.iter)

FusedKey(f) == LsmIterKey(f.iter)

FusedValue(f) == LsmIterValue(f.iter)

\* FusedIterator::next without the test of the latch: the inner iterator is
\* called again after an error.
FusedNextUnlatched(f) ==
  IF LsmIterIsValid(f.iter)
  THEN With(LsmIterNext(f.iter), LAMBDA r :
         IF r.err THEN [err |-> TRUE, it |-> [iter |-> r.it, has_errored |-> TRUE]]
         ELSE [err |-> FALSE, it |-> [f EXCEPT !.iter = r.it]])
  ELSE [err |-> FALSE, it |-> f]

\* FusedIterator::next that reports the end as an error: next() on an
\* iterator that is not valid fails and sets the latch.
FusedNextErrAtEnd(f) ==
  IF f.has_errored THEN [err |-> TRUE, it |-> f]
  ELSE IF LsmIterIsValid(f.iter)
  THEN With(LsmIterNext(f.iter), LAMBDA r :
         IF r.err THEN [err |-> TRUE, it |-> [iter |-> r.it, has_errored |-> TRUE]]
         ELSE [err |-> FALSE, it |-> [f EXCEPT !.iter = r.it]])
  ELSE [err |-> TRUE, it |-> [f EXCEPT !.has_errored = TRUE]]

\* FusedIterator::next: [err, it]
FusedNext(f) ==
  IF f.has_errored THEN [err |-> TRUE, it |-> f]
  ELSE IF LsmIterIsValid(f.iter)
  THEN With(LsmIterNext(f.iter), LAMBDA r :
         IF r.err THEN [err |-> TRUE, it |-> [iter |-> r.it, has_errored |-> TRUE]]
         ELSE [err |-> FALSE, it |-> [f EXCEPT !.iter = r.it]])
  ELSE [err |-> FALSE, it |-> f]

\* ------------------------------------------------------------------ engine

\* LsmStorageState::create with CompactionOptions::NoCompaction
LsmStorageStateCreate ==
  [memtable |-> 0, imm_memtables |-> <<>>, l0_sstables |-> <<>>,
   levels |-> << <<1, <<>> >> >>, sstables |-> <<>>]

\* The immutable-memtable loop of get: the first memtable that holds the key.
RECURSIVE GetImm(_, _)
GetImm(imm_memtables, key) ==
  IF imm_memtables = <<>> THEN None
  ELSE IF MemTableGet(mems[Head(imm_memtables)], key) # None
  THEN MemTableGet(mems[Head(imm_memtables)], key)
  ELSE GetImm(Tail(imm_memtables), key)

\* The L0 loop of get: a run whose seek fails is left out; [status, iters]
RECURSIVE GetL0Iters(_, _, _, _)
GetL0Iters(snapshot, l0, key, overflow_checks) ==
  IF l0 = <<>> THEN [status |-> "Ok", iters |-> <<>>]
  ELSE With(SsTableIterCreateAndSeekToKey(snapshot.sstables[Head(l0)], key,
                                          overflow_checks),
            LAMBDA r :
    With(GetL0Iters(snapshot, Tail(l0), key, overflow_checks), LAMBDA rest :
      IF r.status = "Panic" \/ rest.status = "Panic" THEN [status |-> "Panic"]
      ELSE IF r.status = "Ok"
      THEN [status |-> "Ok", iters |-> <<r.it>> \o rest.iters]
      ELSE rest))

\* The loop of get that passes the keys smaller than key: [err, it]
RECURSIVE SkipSmaller(_, _)
SkipSmaller(m, key) ==
  IF MergeIterIsValid(m) /\ BytesCmp(MergeIterKey(m), key) = "Less"
  THEN With(MergeIterNext(m), LAMBDA r :
         IF r.err THEN r ELSE SkipSmaller(r.it, key))
  ELSE [err |-> FALSE, it |-> m]

\* An empty value is a tombstone: Ok(None).
OptionOfValue(value) == IF value = <<>> THEN None ELSE Some(value)

\* LsmStorageInner::get on a snapshot: [status, value]
Get(snapshot, key, overflow_checks) ==
  LET res == MemTableGet(mems[snapshot.memtable], key)
      imm == GetImm(snapshot.imm_memtables, key)
  IN IF res # None THEN [status |-> "Ok", value |-> OptionOfValue(res[1])]
     ELSE IF imm # None THEN [status |-> "Ok", value |-> OptionOfValue(imm[1])]
     ELSE With(GetL0Iters(snapshot, snapshot.l0_sstables, key, overflow_checks),
               LAMBDA l0 :
       IF l0.status = "Panic" THEN [status |-> "Panic", value |-> None]
       ELSE With(SkipSmaller(MergeIterCreate(l0.iters), key), LAMBDA skipped :
         IF skipped.err THEN [status |-> "Err", value |-> None]
         ELSE IF /\ MergeIterIsValid(skipped.it)
                 /\ BytesCmp(MergeIterKey(skipped.it), key) = "Equal"
         THEN [status |-> "Ok", value |-> OptionOfValue(MergeIterValue(skipped.it))]
         ELSE [status |-> "Ok", value |-> None]))

\* The memtable iterators of scan: the active memtable, then the immutable ones.
ScanMemIters(snapshot, lower, upper) ==
  <<MemTableScan(snapshot.memtable, lower, upper)>>
    \o [i \in 1..Len(snapshot.imm_memtables) |->
          MemTableScan(snapshot.imm_memtables[i], lower, upper)]

\* The iterator scan makes for one L0 run: [status, it]
ScanSstIter(table, lower, overflow_checks) ==
  CASE lower.kind = "Included" ->
         SsTableIterCreateAndSeekToKey(table, lower.key, overflow_checks)
    [] lower.kind = "Excluded" ->
         With(SsTableIterCreateAndSeekToKey(table, lower.key, overflow_checks),
              LAMBDA r :
           IF r.status # "Ok" THEN r
           ELSE With(SsTableIterNext(r.it), LAMBDA n :
             IF n.err THEN [status |-> "Err"]
             ELSE [status |-> "Ok", it |-> n.it]))
    [] OTHER -> SsTableIterCreateAndSeekToFirst(table)

\* The L0 loop of scan: the first failure ends it; [status, iters]
RECURSIVE ScanL0Iters(_, _, _, _)
ScanL0Iters(snapshot, l0, lower, overflow_checks) ==
  IF l0 = <<>> THEN [status |-> "Ok", iters |-> <<>>]
  ELSE With(ScanSstIter(snapshot.sstables[Head(l0)], lower, overflow_checks),
            LAMBDA r :
    IF r.status # "Ok" THEN [status |-> r.status]
    ELSE With(ScanL0Iters(snapshot, Tail(l0), lower, overflow_checks), LAMBDA rest :
      IF rest.status # "Ok" THEN rest
      ELSE [status |-> "Ok", iters |-> <<r.it>> \o rest.iters]))

\* LsmStorageInner::scan on a snapshot: [status, stage, it]; stage names the
\* call that returned the error ("sst": an L0 iterator, "lsm": LsmIterator::new).
Scan(snapshot, lower, upper, overflow_checks) ==
  With(ScanL0Iters(snapshot, snapshot.l0_sstables, lower, overflow_checks),
       LAMBDA sst :
    IF sst.status # "Ok" THEN [status |-> sst.status, stage |-> "sst"]
    ELSE With(LsmIterNew(TwoMergeCreate(MergeIterCreate(ScanMemIters(snapshot, lower, upper)),
                                        MergeIterCreate(sst.iters)),
                         upper),
              LAMBDA lsm :
      IF lsm.err THEN [status |-> "Err", stage |-> "lsm"]
      ELSE [status |-> "Ok", stage |-> "done", it |-> FusedNew(lsm.it)]))

\* SsTableBuilder::add_iter over a memtable iterator
RECURSIVE AddIter(_, _)
AddIter(sb, iter) ==
  IF MemTableIterIsValid(iter)
  THEN AddIter(SsTableBuilderAdd(sb, MemTableIterKey(iter), MemTableIterValue(iter)),
               MemTableIterNext(iter).it)
  ELSE sb

\* The run force_flush_next_imm_memtable builds from a memtable.
FlushedSst(mem) ==
  SsTableBuilderBuild(AddIter(SsTableBuilderNew(target_sst_size),
                              MemTableScan(mem, Unbounded, Unbounded)),
                      mems[mem].id)

\* FrozenState putting the memtable behind the older immutable memtables.
FrozenStateAppended(st, next_id) ==
  [st EXCEPT !.memtable = next_id,
             !.imm_memtables = Append(st.imm_memtables, st.memtable)]

\* The state force_freeze_memtable publishes, with the new memtable next_id.
FrozenState(st, next_id) ==
  [st EXCEPT !.memtable = next_id,
             !.imm_memtables = <<st.memtable>> \o st.imm_memtables]

\* ----------------------------------------------------------------- actions

\* The bounds a scan is called with.
LowerBounds ==
  {Unbounded} \cup {Included(k) : k \in LowerKeys} \cup {Excluded(k) : k \in LowerKeys}

UpperBounds ==
  {Unbounded} \cup {Included(k) : k \in UpperKeys} \cup {Excluded(k) : k \in UpperKeys}

\* The builds a call is run in: with overflow checks (TRUE) and without.  The
\* two differ only where find_block_idx meets a run without block meta.
Builds(snapshot) ==
  IF \E i \in 1..Len(snapshot.l0_sstables) :
       snapshot.sstables[snapshot.l0_sstables[i]].block_meta = <<>>
  THEN BOOLEAN ELSE {TRUE}

\* No get has returned.  `after` tells that an earlier get of the same key
\* returned the value of the last write to it.
NoGet == [status |-> "None", key |-> <<>>, value |-> None, after |-> FALSE]

NoScan ==
  [status |-> "None", stage |-> "none", lower |-> Unbounded, upper |-> Unbounded,
   it |-> <<>>, emitted |-> <<>>, last_next |-> "None", after_end |-> 0]

\* What the caller reads from a valid iterator, appended to what it has read.
Observe(emitted, it) ==
  IF FusedIsValid(it) THEN Append(emitted, <<FusedKey(it), FusedValue(it)>>) ELSE emitted

\* The value of the last write to key, None when it was never written.
LastWrite(key) == IF ref[key] = <<>> THEN None ELSE Some(ref[key][Len(ref[key])])

Init ==
  /\ state = LsmStorageStateCreate
  /\ mems = (0 :> MemTableCreate(0))
  /\ next_sst_id = FirstSstId
  /\ target_sst_size \in {TargetSmall, TargetLarge}
  /\ flushing = {}
  /\ puts = 0
  /\ ref = [k \in Keys |-> <<>>]
  /\ flushed = <<>>
  /\ get_res = NoGet
  /\ scan_res = NoScan

\* try_freeze: the size put read, then the size read again under state_lock.
TryFreeze(approximate_size, active) ==
  /\ approximate_size > target_sst_size
  /\ active.approximate_size > target_sst_size

\* The caller holds no result of an earlier get and no iterator of an earlier
\* scan.
Idle == get_res = NoGet /\ scan_res = NoScan

\* LsmStorageInner::put, with the try_freeze and the force_freeze_memtable it
\* calls.
Put(key, value) ==
  LET active == MemTablePut(mems[state.memtable], key, value)
      written == [mems EXCEPT ![state.memtable] = active]
      freeze == TryFreeze(active.approximate_size, active)
  IN /\ puts < MaxPuts
     /\ freeze => next_sst_id <= MaxId
     /\ puts' = puts + 1
     /\ ref' = [ref EXCEPT ![key] = Append(@, value)]
     /\ mems' = IF freeze
                THEN (next_sst_id :> MemTableCreate(next_sst_id)) @@ written
                ELSE written
     /\ state' = IF freeze THEN FrozenState(state, next_sst_id) ELSE state
     /\ next_sst_id' = IF freeze THEN next_sst_id + 1 ELSE next_sst_id
     /\ UNCHANGED <<target_sst_size, flushing, flushed>>

\* LsmStorageInner::force_freeze_memtable
ForceFreezeMemtable ==
  /\ next_sst_id <= MaxId
  /\ mems' = (next_sst_id :> MemTableCreate(next_sst_id)) @@ mems
  /\ state' = FrozenState(state, next_sst_id)
  /\ next_sst_id' = next_sst_id + 1
  /\ UNCHANGED <<target_sst_size, flushing, puts, ref, flushed>>

\* PopNextImmMemtable taking the newest immutable memtable instead.
PopNextImmMemtableNewest(st) ==
  [st EXCEPT !.imm_memtables = SubSeq(st.imm_memtables, 2, Len(st.imm_memtables))]

\* The first critical section of force_flush_next_imm_memtable: the last
\* immutable memtable is popped and the state without it is published.
PopNextImmMemtable(st) ==
  [st EXCEPT !.imm_memtables = SubSeq(st.imm_memtables, 1, Len(st.imm_memtables) - 1)]

\* InstallSst without the handle: the id alone is inserted.
InstallSstIdOnly(st, id, new_sst) ==
  [st EXCEPT !.l0_sstables = <<id>> \o st.l0_sstables]

\* The second critical section of force_flush_next_imm_memtable: the run is
\* installed at the front of L0.
InstallSst(st, id, new_sst) ==
  [st EXCEPT !.l0_sstables = <<id>> \o st.l0_sstables,
             !.sstables = (id :> new_sst) @@ st.sstables]

\* LsmStorageInner::get on the published state, in a build with or without
\* overflow checks; after is the ghost of the result.
GetResult(key, overflow_checks, after) ==
  With(Get(state, key, overflow_checks), LAMBDA r :
    [status |-> r.status, key |-> key, value |-> r.value, after |-> after])

\* ------------------------------------------------- single-threaded callers

CallPut ==
  \E key \in Keys, value \in Values :
    Idle /\ Put(key, value) /\ UNCHANGED <<get_res, scan_res>>

\* LsmStorageInner::delete
CallDelete ==
  \E key \in Keys : Idle /\ Put(key, <<>>) /\ UNCHANGED <<get_res, scan_res>>

CallForceFreeze == Idle /\ ForceFreezeMemtable /\ UNCHANGED <<get_res, scan_res>>

\* LsmStorageInner::force_flush_next_imm_memtable, called with an immutable
\* memtable to flush: the last one is popped, written as a run, and the run is
\* installed; the memtable is dropped with its last reference.
CallForceFlush ==
  /\ Idle
  /\ state.imm_memtables # <<>>
  /\ LET next_imm_memtable == state.imm_memtables[Len(state.imm_memtables)]
         id == mems[next_imm_memtable].id
         new_sst == FlushedSst(next_imm_memtable)
     IN /\ state' = InstallSst(PopNextImmMemtable(state), id, new_sst)
        /\ flushed' = (id :> mems[next_imm_memtable].map) @@ flushed
        /\ mems' = [i \in (DOMAIN mems) \ {next_imm_memtable} |-> mems[i]]
  /\ UNCHANGED <<next_sst_id, target_sst_size, flushing, puts, ref, get_res, scan_res>>

CallGet ==
  \E key \in Keys, overflow_checks \in Builds(state) :
    /\ Idle
    /\ get_res' = GetResult(key, overflow_checks, FALSE)
    /\ UNCHANGED scan_res
    /\ UNCHANGED <<state, mems, next_sst_id, target_sst_size, flushing, puts, ref, flushed>>

\* What the caller holds after a scan that returned r.
ScanResult(lower, upper, r) ==
  [status |-> r.status, stage |-> r.stage, lower |-> lower, upper |-> upper,
   it |-> IF r.status = "Ok" THEN r.it ELSE <<>>,
   emitted |-> IF r.status = "Ok" THEN Observe(<<>>, r.it) ELSE <<>>,
   last_next |-> "None", after_end |-> 0]

\* LsmStorageInner::scan
CallScan ==
  \E lower \in LowerBounds, upper \in UpperBounds, overflow_checks \in Builds(state) :
    /\ Idle
    /\ scan_res' = ScanResult(lower, upper, Scan(state, lower, upper, overflow_checks))
    /\ UNCHANGED get_res
    /\ UNCHANGED <<state, mems, next_sst_id, target_sst_size, flushing, puts, ref, flushed>>

\* What the caller holds after a next() that returned r; after_end counts the
\* calls made when is_valid() was false.
NextResult(res, r) ==
  [res EXCEPT !.it = r.it,
              !.emitted = IF r.err THEN @ ELSE Observe(@, r.it),
              !.last_next = IF r.err THEN "Err" ELSE "Ok",
              !.after_end = IF FusedIsValid(res.it) THEN @ ELSE @ + 1]

\* next() on the iterator scan returned
CallNext ==
  /\ scan_res.status = "Ok"
  /\ FusedIsValid(scan_res.it) \/ scan_res.after_end < MaxAfterEnd
  /\ scan_res' = NextResult(scan_res, FusedNext(scan_res.it))
  /\ UNCHANGED <<state, mems, next_sst_id, target_sst_size, flushing, puts, ref, flushed,
                 get_res>>

\* The caller drops the result of its get, or the iterator of its scan.
Drop ==
  /\ ~Idle
  /\ get_res' = NoGet
  /\ scan_res' = NoScan
  /\ UNCHANGED <<state, mems, next_sst_id, target_sst_size, flushing, puts, ref, flushed>>

Next ==
  \/ CallPut
  \/ CallDelete
  \/ CallForceFreeze
  \/ CallForceFlush
  \/ CallGet
  \/ CallScan
  \/ CallNext
  \/ Drop

Spec == Init /\ [][Next]_vars

\* force_flush_next_imm_memtable when FileObject::create fails in build: the
\* first critical section has published the state without the memtable, `?`
\* returns the error, and the last handle of the memtable is dropped with the
\* call's frame.
CallForceFlushErr ==
  /\ Idle
  /\ state.imm_memtables # <<>>
  /\ LET next_imm_memtable == state.imm_memtables[Len(state.imm_memtables)]
     IN /\ state' = PopNextImmMemtable(state)
        /\ mems' = [i \in (DOMAIN mems) \ {next_imm_memtable} |-> mems[i]]
        /\ scan_res' = [stage |-> "flush", status |-> "Err", before |-> state,
                        imm |-> mems[next_imm_memtable],
                        newer |-> UNION {DOMAIN mems[m].map :
                                           m \in (DOMAIN mems) \ {next_imm_memtable}}]
  /\ UNCHANGED <<next_sst_id, target_sst_size, flushing, puts, ref, flushed, get_res>>

NextIo ==
  \/ Next
  \/ CallForceFlushErr

\* The engine with one caller and a disk whose writes can fail.
SpecIo == Init /\ [][NextIo]_vars

\* ------------------------------------------------------ concurrent callers
\* Writers, flushers and readers on their own threads.  A step is one critical
\* section of state (the RwLock): a put, a freeze, the pop of a flush, the
\* install of a flush, the whole of a get.  get_res is what the last get
\* returned; a write forgets it.

ConcPut ==
  \E key \in Keys, value \in Values :
    Put(key, value) /\ get_res' = NoGet /\ UNCHANGED scan_res

ConcForceFreeze == ForceFreezeMemtable /\ UNCHANGED <<get_res, scan_res>>

\* force_flush_next_imm_memtable up to the end of its first critical section
ConcFlushPop ==
  /\ state.imm_memtables # <<>>
  /\ state' = PopNextImmMemtable(state)
  /\ flushing' = flushing \cup {state.imm_memtables[Len(state.imm_memtables)]}
  /\ UNCHANGED <<mems, next_sst_id, target_sst_size, puts, ref, flushed, get_res, scan_res>>

\* force_flush_next_imm_memtable from there: the run is built and installed.
ConcFlushInstall ==
  \E next_imm_memtable \in flushing :
    LET id == mems[next_imm_memtable].id
        new_sst == FlushedSst(next_imm_memtable)
    IN /\ state' = InstallSst(state, id, new_sst)
       /\ flushed' = (id :> mems[next_imm_memtable].map) @@ flushed
       /\ flushing' = flushing \ {next_imm_memtable}
       /\ mems' = [i \in (DOMAIN mems) \ {next_imm_memtable} |-> mems[i]]
       /\ UNCHANGED <<next_sst_id, target_sst_size, puts, ref, get_res, scan_res>>

\* A get of a reader thread.
ConcGet ==
  \E key \in Keys, overflow_checks \in Builds(state) :
    /\ get_res' = GetResult(key, overflow_checks,
                            /\ get_res.key = key
                            /\ get_res.status = "Ok"
                            /\ get_res.value # None
                            /\ get_res.value = LastWrite(key))
    /\ UNCHANGED <<state, mems, next_sst_id, target_sst_size, flushing, puts, ref, flushed,
                   scan_res>>

NextConc ==
  \/ ConcPut
  \/ ConcForceFreeze
  \/ ConcFlushPop
  \/ ConcFlushInstall
  \/ ConcGet

SpecConc == Init /\ [][NextConc]_vars

\* ------------------------------------------- a reader beside MemTable::put
\* MemTable::put is a remove followed by an insert on the SkipMap; get reads
\* the memtables of the snapshot it cloned and holds no lock while it does.
\* scan_res holds the put in progress and the snapshot of the reader.

\* MemTable::put, the remove of the key that is present.
MemTableRemove(m, key) ==
  [m EXCEPT !.map = [k \in (DOMAIN m.map) \ {key} |-> m.map[k]]]

InitOverwrite ==
  /\ state = LsmStorageStateCreate
  /\ mems = (0 :> MemTableCreate(0))
  /\ next_sst_id = FirstSstId
  /\ target_sst_size = TargetSmall
  /\ flushing = {}
  /\ puts = 0
  /\ ref = [k \in Keys |-> <<>>]
  /\ flushed = <<>>
  /\ get_res = NoGet
  /\ scan_res = [stage |-> "overwrite", pending |-> None, snapshot |-> None]

\* No put holds the write guard of state.
NoWriter == scan_res.pending = None

\* put takes the write guard; MemTable::put removes the key if the map has it.
OverwritePutRemove ==
  \E key \in Keys, value \in Values :
    /\ NoWriter
    /\ puts < MaxPuts
    /\ TryFreeze(mems[state.memtable].approximate_size + Len(key) + Len(value),
                 MemTablePut(mems[state.memtable], key, value))
         => next_sst_id <= MaxId
    /\ mems' = [mems EXCEPT ![state.memtable] = MemTableRemove(@, key)]
    /\ scan_res' = [scan_res EXCEPT !.pending =
                      Some([key |-> key, value |-> value,
                            old |-> MemTableGet(mems[state.memtable], key)])]
    /\ UNCHANGED <<state, next_sst_id, target_sst_size, flushing, puts, ref, flushed,
                   get_res>>

\* MemTable::put inserts and adds to the size; put drops the guard and calls
\* try_freeze.
OverwritePutInsert ==
  /\ ~NoWriter
  /\ Put(scan_res.pending[1].key, scan_res.pending[1].value)
  /\ scan_res' = [scan_res EXCEPT !.pending = None]
  /\ UNCHANGED get_res

OverwriteForceFreeze ==
  NoWriter /\ ForceFreezeMemtable /\ UNCHANGED <<get_res, scan_res>>

OverwriteFlushPop == NoWriter /\ ConcFlushPop

\* The memtable is dropped with its last handle: no snapshot holds one.
OverwriteFlushInstall == NoWriter /\ scan_res.snapshot = None /\ ConcFlushInstall

\* get clones the Arc under the read guard, which no writer holds.
OverwriteSnapshot ==
  /\ NoWriter
  /\ scan_res.snapshot = None
  /\ scan_res' = [scan_res EXCEPT !.snapshot = Some(state)]
  /\ UNCHANGED <<state, mems, next_sst_id, target_sst_size, flushing, puts, ref, flushed,
                 get_res>>

\* get reads its snapshot.  `racing` holds the put that is between its remove
\* and its insert of the same key in the memtable the snapshot has as active,
\* when the remove took a value out.
OverwriteGet ==
  \E key \in Keys, snapshot \in {scan_res.snapshot[i] : i \in DOMAIN scan_res.snapshot} :
    \E overflow_checks \in Builds(snapshot) :
      With(Get(snapshot, key, overflow_checks), LAMBDA got :
        /\ get_res' = [status |-> got.status, key |-> key, value |-> got.value,
                       after |-> FALSE,
                       racing |-> IF /\ ~NoWriter
                                     /\ scan_res.pending[1].key = key
                                     /\ scan_res.pending[1].old # None
                                     /\ snapshot.memtable = state.memtable
                                  THEN scan_res.pending ELSE None]
        /\ scan_res' = [scan_res EXCEPT !.snapshot = None]
        /\ UNCHANGED <<state, mems, next_sst_id, target_sst_size, flushing, puts, ref,
                       flushed>>)

NextOverwrite ==
  \/ OverwritePutRemove
  \/ OverwritePutInsert
  \/ OverwriteForceFreeze
  \/ OverwriteFlushPop
  \/ OverwriteFlushInstall
  \/ OverwriteSnapshot
  \/ OverwriteGet

SpecOverwrite == InitOverwrite /\ [][NextOverwrite]_vars

\* -------------------------------------------------------------- the locks
\* The calls of concurrent threads, one step for each lock acquisition and
\* one for each critical section with the release that ends it.  state_lock
\* is the thread that holds the Mutex.  The RwLock around state is
\* parking_lot's: a writer first takes the writer bit, which keeps new
\* readers and other writers out, then waits for the readers to leave.
\* writer is the thread that has the writer bit, readers the threads that
\* hold a read guard.  scan_res holds the locks and, for each thread, the
\* call it is in and the locals of that call.

Threads == 1..NumThreads
NoThread == 0

\* A thread that is in no call.
IdleThread == [op |-> "none", pc |-> "idle", next_id |-> 0, imm |-> None]

InitLock ==
  /\ state = LsmStorageStateCreate
  /\ mems = (0 :> MemTableCreate(0))
  /\ next_sst_id = FirstSstId
  /\ target_sst_size = TargetSmall
  /\ flushing = {}
  /\ puts = 0
  /\ ref = [k \in Keys |-> <<>>]
  /\ flushed = <<>>
  /\ get_res = NoGet
  /\ scan_res = [stage |-> "lock", state_lock |-> NoThread, writer |-> NoThread,
                 readers |-> {}, th |-> [t \in Threads |-> IdleThread]]

\* The lock the thread asks for at pc ("drain": it has the writer bit and
\* waits for the readers), "none" when it asks for none.
Requests(pc) ==
  CASE pc \in {"put_write", "freeze_write", "flush_write1", "flush_write2"} -> "write"
    [] pc \in {"put_drain", "freeze_drain", "flush_drain1", "flush_drain2"} -> "drain"
    [] pc \in {"tf_read", "ff_read1", "ff_read2", "snap_read"} -> "read"
    [] pc \in {"tf_lock", "ff_lock"} -> "state_lock"
    [] OTHER -> "none"

\* Where the thread is once the lock it asked for at pc is granted.
Granted(pc) ==
  CASE pc = "put_write" -> "put_drain"
    [] pc = "put_drain" -> "put_mem"
    [] pc = "freeze_write" -> "freeze_drain"
    [] pc = "freeze_drain" -> "freeze_swap"
    [] pc = "flush_write1" -> "flush_drain1"
    [] pc = "flush_drain1" -> "flush_pop"
    [] pc = "flush_write2" -> "flush_drain2"
    [] pc = "flush_drain2" -> "flush_install"
    [] pc = "tf_read" -> "tf_check"
    [] pc = "ff_read1" -> "ff_check1"
    [] pc = "ff_read2" -> "ff_check2"
    [] pc = "snap_read" -> "snap_clone"
    [] pc = "tf_lock" -> "tf_read"
    [] pc = "ff_lock" -> "freeze_new"

\* The first statement of each call.
FirstPc(op) ==
  CASE op \in {"put", "delete"} -> "put_write"
    [] op \in {"get", "scan"} -> "snap_read"
    [] op = "force_flush" -> "ff_read1"
    [] op = "flush" -> "flush_write1"

\* The keys and values of the puts: the locks a call takes depend on them
\* through approximate_size and is_empty only.
LockKeys == {<<1>>}
LockValues == {<<7>>}

Ops == {"put", "delete", "get", "scan", "force_flush", "flush"}

\* The calls in progress that may still take an id from next_sst_id, and
\* those that have not yet written to the memtable.
MayFreeze == {u \in Threads : scan_res.th[u].op \in {"put", "delete", "force_flush"}
                                /\ scan_res.th[u].next_id = 0}
ToInsert ==
  {u \in Threads : scan_res.th[u].pc \in {"put_write", "put_drain", "put_mem",
                                             "put_insert"}}

LockUnchanged == UNCHANGED <<target_sst_size, get_res>>

\* A thread calls put, delete, get, scan, MiniLsm::force_flush or
\* force_flush_next_imm_memtable.
LockCall(t) ==
  \E op \in Ops :
    /\ scan_res.th[t].pc = "idle"
    /\ op \in {"put", "delete"} => puts + Cardinality(ToInsert) < MaxPuts
    /\ op \in {"put", "delete", "force_flush"}
         => next_sst_id + Cardinality(MayFreeze) <= MaxId
    /\ scan_res' = [scan_res EXCEPT !.th[t].op = op, !.th[t].pc = FirstPc(op)]
    /\ UNCHANGED <<state, mems, next_sst_id, flushing, puts, ref, flushed>>
    /\ LockUnchanged

\* self.state_lock.lock() returns.
AcquireStateLock(t) ==
  /\ Requests(scan_res.th[t].pc) = "state_lock"
  /\ scan_res.state_lock = NoThread
  /\ scan_res' = [scan_res EXCEPT !.state_lock = t,
                                  !.th[t].pc = Granted(scan_res.th[t].pc)]
  /\ UNCHANGED <<state, mems, next_sst_id, flushing, puts, ref, flushed>>
  /\ LockUnchanged

\* self.state.read() returns: no writer has the writer bit.
AcquireRead(t) ==
  /\ Requests(scan_res.th[t].pc) = "read"
  /\ scan_res.writer = NoThread
  /\ scan_res' = [scan_res EXCEPT !.readers = @ \cup {t},
                                  !.th[t].pc = Granted(scan_res.th[t].pc)]
  /\ UNCHANGED <<state, mems, next_sst_id, flushing, puts, ref, flushed>>
  /\ LockUnchanged

\* AcquireWrite without the exclusion of writers: the writer bit is taken
\* from a writer that holds it.
AcquireWriteBarging(t) ==
  /\ Requests(scan_res.th[t].pc) = "write"
  /\ scan_res' = [scan_res EXCEPT !.writer = t,
                                  !.th[t].pc = Granted(scan_res.th[t].pc)]
  /\ UNCHANGED <<state, mems, next_sst_id, flushing, puts, ref, flushed>>
  /\ LockUnchanged

\* self.state.write(): the thread takes the writer bit.
AcquireWrite(t) ==
  /\ Requests(scan_res.th[t].pc) = "write"
  /\ scan_res.writer = NoThread
  /\ scan_res' = [scan_res EXCEPT !.writer = t,
                                  !.th[t].pc = Granted(scan_res.th[t].pc)]
  /\ UNCHANGED <<state, mems, next_sst_id, flushing, puts, ref, flushed>>
  /\ LockUnchanged

\* self.state.write() returns: the readers have left.
WaitForReaders(t) ==
  /\ Requests(scan_res.th[t].pc) = "drain"
  /\ scan_res.readers = {}
  /\ scan_res' = [scan_res EXCEPT !.th[t].pc = Granted(scan_res.th[t].pc)]
  /\ UNCHANGED <<state, mems, next_sst_id, flushing, puts, ref, flushed>>
  /\ LockUnchanged

\* put under its write guard: the reference to the active memtable of the
\* guarded state.
PutMemTable(t) ==
  /\ scan_res.th[t].pc = "put_mem"
  /\ scan_res' = [scan_res EXCEPT !.th[t].imm = Some(state.memtable),
                                  !.th[t].pc = "put_insert"]
  /\ UNCHANGED <<state, mems, next_sst_id, flushing, puts, ref, flushed>>
  /\ LockUnchanged

\* put under its write guard: the insert into that memtable, its size read,
\* the guard dropped; then the first test of try_freeze.
PutInsert(t) ==
  \E key \in LockKeys,
     value \in IF scan_res.th[t].op = "delete" THEN {<<>>} ELSE LockValues,
     mem_table \in {scan_res.th[t].imm[i] : i \in DOMAIN scan_res.th[t].imm} :
    With(MemTablePut(mems[mem_table], key, value), LAMBDA written :
      /\ scan_res.th[t].pc = "put_insert"
      /\ mems' = [mems EXCEPT ![mem_table] = written]
      /\ puts' = puts + 1
      /\ ref' = [ref EXCEPT ![key] = Append(@, value)]
      /\ scan_res' =
           IF written.approximate_size > target_sst_size
           THEN [scan_res EXCEPT !.writer = NoThread, !.th[t].imm = None,
                                 !.th[t].pc = "tf_lock"]
           ELSE [scan_res EXCEPT !.writer = NoThread, !.th[t] = IdleThread]
      /\ UNCHANGED <<state, next_sst_id, flushing, flushed>>
      /\ LockUnchanged)

\* try_freeze without its drop(guard): the read guard lives to the end of the
\* block, across force_freeze_memtable.
TryFreezeGuardKept(readers, t) == readers \cup {t}

\* try_freeze, drop(guard): the readers of state when force_freeze_memtable
\* is called.
TryFreezeGuard(readers, t) == readers \ {t}

\* try_freeze without the second test: the freeze follows the size put read.
TryFreezeUnchecked(t) ==
  /\ scan_res.th[t].pc = "tf_check"
  /\ scan_res' = [scan_res EXCEPT !.readers = TryFreezeGuard(@, t),
                                  !.th[t].pc = "freeze_new"]
  /\ UNCHANGED <<state, mems, next_sst_id, flushing, puts, ref, flushed>>
  /\ LockUnchanged

\* try_freeze under state_lock and its read guard: the size is read again.
TryFreezeCheck(t) ==
  /\ scan_res.th[t].pc = "tf_check"
  /\ scan_res' =
       IF mems[state.memtable].approximate_size > target_sst_size
       THEN [scan_res EXCEPT !.readers = TryFreezeGuard(@, t),
                             !.th[t].pc = "freeze_new"]
       ELSE [scan_res EXCEPT !.readers = @ \ {t}, !.state_lock = NoThread,
                             !.th[t] = IdleThread]
  /\ UNCHANGED <<state, mems, next_sst_id, flushing, puts, ref, flushed>>
  /\ LockUnchanged

\* ForceFreezeNew with a load of next_sst_id in place of its fetch_add.
ForceFreezeNewLoad(t) ==
  /\ scan_res.th[t].pc = "freeze_new"
  /\ next_sst_id <= MaxId
  /\ scan_res' = [scan_res EXCEPT !.th[t].next_id = next_sst_id,
                                  !.th[t].pc = "freeze_write"]
  /\ UNCHANGED <<state, mems, next_sst_id, flushing, puts, ref, flushed>>
  /\ LockUnchanged

\* force_freeze_memtable up to its state.write(): the id of the new memtable.
ForceFreezeNew(t) ==
  /\ scan_res.th[t].pc = "freeze_new"
  /\ next_sst_id <= MaxId
  /\ next_sst_id' = next_sst_id + 1
  /\ scan_res' = [scan_res EXCEPT !.th[t].next_id = next_sst_id,
                                  !.th[t].pc = "freeze_write"]
  /\ UNCHANGED <<state, mems, flushing, puts, ref, flushed>>
  /\ LockUnchanged

\* force_freeze_memtable under its write guard; the caller drops the guard of
\* state_lock when it returns.
ForceFreezeSwap(t) ==
  /\ scan_res.th[t].pc = "freeze_swap"
  /\ mems' = (scan_res.th[t].next_id :> MemTableCreate(scan_res.th[t].next_id)) @@ mems
  /\ state' = FrozenState(state, scan_res.th[t].next_id)
  /\ scan_res' =
       IF scan_res.th[t].op = "force_flush"
       THEN [scan_res EXCEPT !.writer = NoThread, !.state_lock = NoThread,
                             !.th[t].pc = "ff_read2"]
       ELSE [scan_res EXCEPT !.writer = NoThread, !.state_lock = NoThread,
                             !.th[t] = IdleThread]
  /\ UNCHANGED <<next_sst_id, flushing, puts, ref, flushed>>
  /\ LockUnchanged

\* MiniLsm::force_flush: its first condition, the read guard dropped with it.
ForceFlushCheck1(t) ==
  /\ scan_res.th[t].pc = "ff_check1"
  /\ scan_res' = [scan_res EXCEPT
       !.readers = @ \ {t},
       !.th[t].pc = IF ~MemTableIsEmpty(mems[state.memtable])
                    THEN "ff_lock" ELSE "ff_read2"]
  /\ UNCHANGED <<state, mems, next_sst_id, flushing, puts, ref, flushed>>
  /\ LockUnchanged

\* MiniLsm::force_flush: its second condition.
ForceFlushCheck2(t) ==
  /\ scan_res.th[t].pc = "ff_check2"
  /\ scan_res' =
       IF state.imm_memtables # <<>>
       THEN [scan_res EXCEPT !.readers = @ \ {t}, !.th[t].pc = "flush_write1"]
       ELSE [scan_res EXCEPT !.readers = @ \ {t}, !.th[t] = IdleThread]
  /\ UNCHANGED <<state, mems, next_sst_id, flushing, puts, ref, flushed>>
  /\ LockUnchanged

\* The first critical section of force_flush_next_imm_memtable.  With no
\* immutable memtable `expect` panics and the unwinding drops the guard.
FlushPop(t) ==
  /\ scan_res.th[t].pc = "flush_pop"
  /\ IF state.imm_memtables = <<>>
     THEN /\ scan_res' = [scan_res EXCEPT !.writer = NoThread,
                                          !.th[t] = IdleThread]
          /\ UNCHANGED <<state, flushing>>
     ELSE /\ state' = PopNextImmMemtable(state)
          /\ flushing' = flushing \cup {state.imm_memtables[Len(state.imm_memtables)]}
          /\ scan_res' = [scan_res EXCEPT
               !.writer = NoThread,
               !.th[t].imm = Some(state.imm_memtables[Len(state.imm_memtables)]),
               !.th[t].pc = "flush_write2"]
  /\ UNCHANGED <<mems, next_sst_id, puts, ref, flushed>>
  /\ LockUnchanged

\* The run is built from the popped memtable outside the locks (add_iter, then
\* build); the second critical section installs it.
FlushInstall(t) ==
  /\ scan_res.th[t].pc = "flush_install"
  /\ \E popped \in {scan_res.th[t].imm[i] : i \in DOMAIN scan_res.th[t].imm} :
       \E sst_builder \in {AddIter(SsTableBuilderNew(target_sst_size),
                                   MemTableScan(popped, Unbounded, Unbounded))} :
         \E new_sst \in {SsTableBuilderBuild(sst_builder, mems[popped].id)} :
           /\ state' = InstallSst(state, mems[popped].id, new_sst)
           /\ flushed' = (mems[popped].id :> mems[popped].map) @@ flushed
           /\ flushing' = flushing \ {popped}
           /\ mems' = [i \in (DOMAIN mems) \ {popped} |-> mems[i]]
           /\ scan_res' = [scan_res EXCEPT !.writer = NoThread, !.th[t] = IdleThread]
           /\ UNCHANGED <<next_sst_id, puts, ref>>
           /\ LockUnchanged

\* get and scan: the Arc is cloned and the read guard dropped; the rest of
\* the call reads the snapshot and takes no lock.
SnapshotClone(t) ==
  /\ scan_res.th[t].pc = "snap_clone"
  /\ scan_res' = [scan_res EXCEPT !.readers = @ \ {t}, !.th[t] = IdleThread]
  /\ UNCHANGED <<state, mems, next_sst_id, flushing, puts, ref, flushed>>
  /\ LockUnchanged

\* The engine with a target_sst_size as small as the size of a new memtable.
InitFreeze ==
  /\ state = LsmStorageStateCreate
  /\ mems = (0 :> MemTableCreate(0))
  /\ next_sst_id = FirstSstId
  /\ target_sst_size \in {InitialApproximateSize, TargetSmall}
  /\ flushing = {}
  /\ puts = 0
  /\ ref = [k \in Keys |-> <<>>]
  /\ flushed = <<>>
  /\ get_res = NoGet
  /\ scan_res = [stage |-> "lock", state_lock |-> NoThread, writer |-> NoThread,
                 readers |-> {}, th |-> [t \in Threads |-> IdleThread]]

\* A step of a call in progress.
LockStep(t) ==
  \/ AcquireStateLock(t)
  \/ AcquireRead(t)
  \/ AcquireWrite(t)
  \/ WaitForReaders(t)
  \/ PutMemTable(t)
  \/ PutInsert(t)
  \/ TryFreezeCheck(t)
  \/ ForceFreezeNew(t)
  \/ ForceFreezeSwap(t)
  \/ ForceFlushCheck1(t)
  \/ ForceFlushCheck2(t)
  \/ FlushPop(t)
  \/ FlushInstall(t)
  \/ SnapshotClone(t)

NextLock ==
  \/ \E t \in Threads : LockCall(t)
  \/ \E t \in Threads : LockStep(t)

\* Every thread in a call is scheduled, and the locks are fair: a request
\* that can be granted again and again is granted.
SpecLock == InitLock /\ [][NextLock]_vars /\ \A t \in Threads : SF_vars(LockStep(t))

\* The threads and the locks, for the properties of the steps alone.
SpecFreeze == InitFreeze /\ [][NextLock]_vars

\* ------------------------------------------------- the versions of the state
\* Each Arc<LsmStorageState> the engine has published is an allocation of
\* `heap`; the RwLock points to the last one.  A writer clones the state it
\* finds under the write guard, changes the clone and publishes it; a reader
\* clones the pointer.  scan_res holds the heap, the locks and the threads.

\* A thread that is in no call and holds no snapshot.
IdleVersions ==
  [op |-> "none", pc |-> "idle", sta |-> None, next_id |-> 0, imm |-> None, ptr |-> 0]

InitVersions ==
  /\ state = LsmStorageStateCreate
  /\ mems = (0 :> MemTableCreate(0))
  /\ next_sst_id = FirstSstId
  /\ target_sst_size = TargetSmall
  /\ flushing = {}
  /\ puts = 0
  /\ ref = [k \in Keys |-> <<>>]
  /\ flushed = <<>>
  /\ get_res = NoGet
  /\ scan_res = [stage |-> "versions", heap |-> <<LsmStorageStateCreate>>,
                 state_lock |-> NoThread, writer |-> NoThread,
                 th |-> [t \in Threads |-> IdleVersions]]

\* *guard = Arc::new(sta) written over the allocation the guard points to.
PublishInPlace(heap, sta) == [heap EXCEPT ![Len(heap)] = sta]

\* *guard = Arc::new(sta): a new allocation, which the RwLock points to.
Publish(heap, sta) == Append(heap, sta)

\* The freezes in progress that have not taken their id.
VersionsMayFreeze ==
  {u \in Threads : scan_res.th[u].op = "freeze" /\ scan_res.th[u].next_id = 0}

VersionsUnchanged == UNCHANGED <<target_sst_size, puts, ref, get_res>>

\* A thread calls force_freeze_memtable (with the guard of state_lock it has
\* to take first), force_flush_next_imm_memtable, or reads as get and scan do.
VersionsCall(t) ==
  \E op \in {"freeze", "flush", "read"} :
    /\ scan_res.th[t].pc = "idle"
    /\ scan_res.th[t].ptr = 0
    /\ op = "freeze" => next_sst_id + Cardinality(VersionsMayFreeze) <= MaxId
    /\ scan_res' = [scan_res EXCEPT
         !.th[t].op = op,
         !.th[t].pc = CASE op = "freeze" -> "state_lock"
                        [] op = "flush" -> "pop_write"
                        [] op = "read" -> "read"]
    /\ UNCHANGED <<state, mems, next_sst_id, flushing, flushed>>
    /\ VersionsUnchanged

\* state_lock.lock() returns; force_freeze_memtable takes the next id and
\* creates the memtable.
VersionsFreezeNew(t) ==
  /\ scan_res.th[t].pc = "state_lock"
  /\ scan_res.state_lock = NoThread
  /\ next_sst_id <= MaxId
  /\ next_sst_id' = next_sst_id + 1
  /\ mems' = (next_sst_id :> MemTableCreate(next_sst_id)) @@ mems
  /\ scan_res' = [scan_res EXCEPT !.state_lock = t,
                                  !.th[t].next_id = next_sst_id,
                                  !.th[t].pc = "freeze_write"]
  /\ UNCHANGED <<state, flushing, flushed>>
  /\ VersionsUnchanged

\* state.write() returns and the writer clones the state the guard points to.
VersionsClone(t) ==
  /\ scan_res.th[t].pc \in {"freeze_write", "pop_write", "install_write"}
  /\ scan_res.writer = NoThread
  /\ scan_res' = [scan_res EXCEPT
       !.writer = t,
       !.th[t].sta = Some(scan_res.heap[Len(scan_res.heap)]),
       !.th[t].pc = CASE scan_res.th[t].pc = "freeze_write" -> "freeze_publish"
                      [] scan_res.th[t].pc = "pop_write" -> "pop_publish"
                      [] scan_res.th[t].pc = "install_write" -> "install_publish"]
  /\ UNCHANGED <<state, mems, next_sst_id, flushing, flushed>>
  /\ VersionsUnchanged

\* force_freeze_memtable changes its clone and publishes it; the guards are
\* dropped.
VersionsFreezePublish(t) ==
  /\ scan_res.th[t].pc = "freeze_publish"
  /\ LET sta == FrozenState(scan_res.th[t].sta[1], scan_res.th[t].next_id)
     IN /\ state' = sta
        /\ scan_res' = [scan_res EXCEPT !.heap = Publish(@, sta),
                                        !.writer = NoThread,
                                        !.state_lock = NoThread,
                                        !.th[t] = IdleVersions]
  /\ UNCHANGED <<mems, next_sst_id, flushing, flushed>>
  /\ VersionsUnchanged

\* The first critical section of force_flush_next_imm_memtable; `expect`
\* panics on a clone with no immutable memtable.
VersionsPopPublish(t) ==
  /\ scan_res.th[t].pc = "pop_publish"
  /\ LET sta == scan_res.th[t].sta[1]
     IN IF sta.imm_memtables = <<>>
        THEN /\ scan_res' = [scan_res EXCEPT !.writer = NoThread,
                                             !.th[t] = IdleVersions]
             /\ UNCHANGED <<state, flushing>>
        ELSE /\ state' = PopNextImmMemtable(sta)
             /\ flushing' = flushing \cup {sta.imm_memtables[Len(sta.imm_memtables)]}
             /\ scan_res' = [scan_res EXCEPT
                  !.heap = Publish(@, PopNextImmMemtable(sta)),
                  !.writer = NoThread,
                  !.th[t].sta = None,
                  !.th[t].imm = Some(sta.imm_memtables[Len(sta.imm_memtables)]),
                  !.th[t].pc = "install_write"]
  /\ UNCHANGED <<mems, next_sst_id, flushed>>
  /\ VersionsUnchanged

\* The run is built; the second critical section installs it in its clone
\* and publishes.
VersionsInstallPublish(t) ==
  /\ scan_res.th[t].pc = "install_publish"
  /\ \E popped \in {scan_res.th[t].imm[i] : i \in DOMAIN scan_res.th[t].imm} :
       \E new_sst \in {FlushedSst(popped)} :
         \E sta \in {InstallSst(scan_res.th[t].sta[1], mems[popped].id, new_sst)} :
           /\ state' = sta
           /\ flushed' = (mems[popped].id :> mems[popped].map) @@ flushed
           /\ flushing' = flushing \ {popped}
           /\ scan_res' = [scan_res EXCEPT !.heap = Publish(@, sta),
                                           !.writer = NoThread,
                                           !.th[t] = IdleVersions]
  /\ UNCHANGED <<mems, next_sst_id>>
  /\ VersionsUnchanged

\* A reader clones the pointer under the read guard, which no writer holds.
VersionsRead(t) ==
  /\ scan_res.th[t].pc = "read"
  /\ scan_res.writer = NoThread
  /\ scan_res' = [scan_res EXCEPT !.th[t].ptr = Len(scan_res.heap),
                                  !.th[t].pc = "idle"]
  /\ UNCHANGED <<state, mems, next_sst_id, flushing, flushed>>
  /\ VersionsUnchanged

\* The reader drops its snapshot.
VersionsDrop(t) ==
  /\ scan_res.th[t].pc = "idle"
  /\ scan_res.th[t].ptr # 0
  /\ scan_res' = [scan_res EXCEPT !.th[t] = IdleVersions]
  /\ UNCHANGED <<state, mems, next_sst_id, flushing, flushed>>
  /\ VersionsUnchanged

NextVersions ==
  \E t \in Threads :
    \/ VersionsCall(t)
    \/ VersionsFreezeNew(t)
    \/ VersionsClone(t)
    \/ VersionsFreezePublish(t)
    \/ VersionsPopPublish(t)
    \/ VersionsInstallPublish(t)
    \/ VersionsRead(t)
    \/ VersionsDrop(t)

SpecVersions == InitVersions /\ [][NextVersions]_vars

\* ------------------------------------------------ the iterators on their own
\* A MergeIterator and a TwoMergeIterator over given inputs.  Input i is
\* memtable i, read through a MemTableIterator over the whole of it or
\* written as a sorted run and read through an SsTableIterator from its first
\* entry; the value of a key in input i is <<10 + i>>, so that an emitted
\* value names its input.  scan_res holds the iterator, the lists a and b of
\* its inputs, and what the caller has read.

InputIds == 0..(MaxInputs - 1)

InputValue(i) == <<10 + i>>

\* MemTable::put of every key of a list
RECURSIVE PutAll(_, _, _)
PutAll(m, keys, value) ==
  IF keys = <<>> THEN m ELSE PutAll(MemTablePut(m, Head(keys), value), Tail(keys), value)

\* The smallest key of a set first.
RECURSIVE Ascending(_)
Ascending(S) == IF S = {} THEN <<>> ELSE <<MinKey(S)>> \o Ascending(S \ {MinKey(S)})

InitInputs ==
  /\ \E ks \in [InputIds -> SUBSET Keys] :
       mems = [i \in InputIds |-> PutAll(MemTableCreate(i), Ascending(ks[i]), InputValue(i))]
  /\ state = LsmStorageStateCreate
  /\ next_sst_id = FirstSstId
  /\ target_sst_size \in {TargetSmall, TargetLarge}
  /\ flushing = {}
  /\ puts = 0
  /\ ref = [k \in Keys |-> <<>>]
  /\ flushed = <<>>
  /\ get_res = NoGet
  /\ scan_res = NoScan

\* The inputs first, first + 1, ..., last as a list.
InputList(first, last) == [i \in 1..(last - first + 1) |-> first + i - 1]

\* The leaf iterators over a list of inputs.
LeafIters(inputs, kind) ==
  [i \in 1..Len(inputs) |->
     IF kind = "mem" THEN MemTableScan(inputs[i], Unbounded, Unbounded)
     ELSE SsTableIterCreateAndSeekToFirst(FlushedSst(inputs[i])).it]

\* A sorted run is made of the inputs that hold entries.
CanLeaf(inputs, kind) ==
  kind = "sst" => \A i \in 1..Len(inputs) : ~MemTableIsEmpty(mems[inputs[i]])

\* What the caller holds after create, and after a next() that returned r.
IterResult(stage, a, b, it, valid, entry) ==
  [status |-> "Ok", stage |-> stage, lower |-> Unbounded, upper |-> Unbounded,
   it |-> it, emitted |-> IF valid THEN <<entry>> ELSE <<>>,
   last_next |-> "None", after_end |-> 0, a |-> a, b |-> b]

IterNextResult(res, r, valid, entry) ==
  [res EXCEPT !.it = r.it,
              !.emitted = IF ~r.err /\ valid THEN Append(@, entry) ELSE @,
              !.last_next = IF r.err THEN "Err" ELSE "Ok"]

MergeEntry(m) == <<MergeIterKey(m), MergeIterValue(m)>>

TwoMergeEntry(t) == <<TwoMergeKey(t), TwoMergeValue(t)>>

MergeResult(a, m) == IterResult("merge", a, <<>>, m, MergeIterIsValid(m), MergeEntry(m))

\* MergeIterator::create over the first n inputs
IterCreateMerge ==
  \E n \in 0..MaxInputs, kind \in {"mem", "sst"} :
    /\ scan_res = NoScan
    /\ CanLeaf(InputList(0, n - 1), kind)
    /\ scan_res' = MergeResult(InputList(0, n - 1),
                               MergeIterCreate(LeafIters(InputList(0, n - 1), kind)))
    /\ UNCHANGED <<state, mems, next_sst_id, target_sst_size, flushing, puts, ref, flushed,
                   get_res>>

MergeNextResult(res, r) ==
  IterNextResult(res, r, MergeIterIsValid(r.it), MergeEntry(r.it))

\* MergeIterator::next on a valid iterator
IterNextMerge ==
  /\ scan_res.stage = "merge"
  /\ scan_res.last_next # "Err"
  /\ MergeIterIsValid(scan_res.it)
  /\ scan_res' = MergeNextResult(scan_res, MergeIterNext(scan_res.it))
  /\ UNCHANGED <<state, mems, next_sst_id, target_sst_size, flushing, puts, ref, flushed,
                 get_res>>

TwoMergeResult(a, b, t) ==
  IterResult("two", a, b, t, TwoMergeIsValid(t), TwoMergeEntry(t))

\* TwoMergeIterator::create: A merges the first n inputs, B the others.
IterCreateTwo ==
  \E n \in 0..MaxInputs, kind \in {"mem", "sst"} :
    /\ scan_res = NoScan
    /\ CanLeaf(InputList(n, MaxInputs - 1), kind)
    /\ scan_res' =
         TwoMergeResult(InputList(0, n - 1), InputList(n, MaxInputs - 1),
                        TwoMergeCreate(
                          MergeIterCreate(LeafIters(InputList(0, n - 1), "mem")),
                          MergeIterCreate(LeafIters(InputList(n, MaxInputs - 1), kind))))
    /\ UNCHANGED <<state, mems, next_sst_id, target_sst_size, flushing, puts, ref, flushed,
                   get_res>>

TwoMergeNextResult(res, r) ==
  IterNextResult(res, r, TwoMergeIsValid(r.it), TwoMergeEntry(r.it))

\* TwoMergeIterator::next on a valid iterator
IterNextTwo ==
  /\ scan_res.stage = "two"
  /\ scan_res.last_next # "Err"
  /\ TwoMergeIsValid(scan_res.it)
  /\ scan_res' = TwoMergeNextResult(scan_res, TwoMergeNext(scan_res.it))
  /\ UNCHANGED <<state, mems, next_sst_id, target_sst_size, flushing, puts, ref, flushed,
                 get_res>>

\* The caller drops the iterator.
IterDrop ==
  /\ scan_res # NoScan
  /\ scan_res' = NoScan
  /\ UNCHANGED <<state, mems, next_sst_id, target_sst_size, flushing, puts, ref, flushed,
                 get_res>>

NextIter ==
  \/ IterCreateMerge
  \/ IterNextMerge
  \/ IterCreateTwo
  \/ IterNextTwo
  \/ IterDrop

SpecIter == InitInputs /\ [][NextIter]_vars

\* The file of a run cut to nothing on the disk under the open handle, which
\* keeps the size it was created with: every FileObject::read of it fails
\* from then on.
Truncated(leaf) == [leaf EXCEPT !.table.file = <<>>]

\* The disk loses the file of one input of the MergeIterator the caller
\* holds; the block that input is on stays in memory.
IterTruncate ==
  /\ scan_res.stage = "merge"
  /\ scan_res.last_next # "Err"
  /\ scan_res.it.current # None
  /\ \E w \in scan_res.it.iters \cup {scan_res.it.current[1]} :
       /\ w.it.type # "mem"
       /\ w.it.table.file # <<>>
       /\ scan_res' =
            IF w = scan_res.it.current[1]
            THEN [scan_res EXCEPT !.it.current = Some([w EXCEPT !.it = Truncated(w.it)])]
            ELSE [scan_res EXCEPT !.it.iters =
                    (@ \ {w}) \cup {[w EXCEPT !.it = Truncated(w.it)]}]
  /\ UNCHANGED <<state, mems, next_sst_id, target_sst_size, flushing, puts, ref, flushed,
                 get_res>>

NextIterIo ==
  \/ NextIter
  \/ IterTruncate

\* The iterators over inputs whose reads can fail.
SpecIterIo == InitInputs /\ [][NextIterIo]_vars

\* ---------------------------------------------------- the formats on their own
\* A block and a sorted run built from given entries, and read back.  The
\* entries are those of memtable 0 in key order, target_sst_size is the block
\* size (force_flush_next_imm_memtable makes its builder with it), and
\* scan_res holds what was built, the iterator and what the caller has read.
\* status is "Panic" when a slice or an index of the call was out of bounds.

\* A value of BigLen bytes.
BigValue == [i \in 1..BigLen |-> 0]

FormatValues == {<<>>, <<7>>, BigValue}

\* MemTable::put of every key of a list, each with its value
RECURSIVE PutEach(_, _, _)
PutEach(m, keys, values) ==
  IF keys = <<>> THEN m
  ELSE PutEach(MemTablePut(m, Head(keys), values[Head(keys)]), Tail(keys), values)

InitFormat ==
  /\ \E ks \in SUBSET Keys, values \in [Keys -> FormatValues] :
       mems = (0 :> PutEach(MemTableCreate(0), Ascending(ks), values))
  /\ state = LsmStorageStateCreate
  /\ next_sst_id = FirstSstId
  /\ target_sst_size \in {TargetSmall, TargetLarge, DefaultTargetSstSize}
  /\ flushing = {}
  /\ puts = 0
  /\ ref = [k \in Keys |-> <<>>]
  /\ flushed = <<>>
  /\ get_res = NoGet
  /\ scan_res = NoScan

\* The entries of a memtable, in key order.
RECURSIVE EntriesOf(_)
EntriesOf(iter) ==
  IF MemTableIterIsValid(iter)
  THEN << <<MemTableIterKey(iter), MemTableIterValue(iter)>> >>
         \o EntriesOf(MemTableIterNext(iter).it)
  ELSE <<>>

Entries == EntriesOf(MemTableScan(0, Unbounded, Unbounded))

\* BlockBuilder::add of the entries of a list up to the first one that is not
\* accepted: [builder, added]
RECURSIVE AddWhileAccepted(_, _, _)
AddWhileAccepted(b, entries, added) ==
  IF entries = <<>> THEN [builder |-> b, added |-> added]
  ELSE With(BlockBuilderAdd(b, Head(entries)[1], Head(entries)[2]), LAMBDA r :
         IF r.accepted
         THEN AddWhileAccepted(r.builder, Tail(entries), Append(added, Head(entries)))
         ELSE [builder |-> b, added |-> added])

\* The block a BlockBuilder of the block size makes of the entries.
BuiltBlock ==
  With(AddWhileAccepted(BlockBuilderNew(target_sst_size), Entries, <<>>), LAMBDA r :
    [added |-> r.added, block |-> BlockBuilderBuild(r.builder)])

BlockIterEntry(it) == <<BlockIterKey(it), BlockIterValue(it)>>

\* The caller reads key() and value() of a valid iterator.
BlockIterRead(res) ==
  IF ~BlockIterIsValid(res.it) THEN res
  ELSE IF ~ValueReadable(res.it.block, res.it.idx) THEN [res EXCEPT !.status = "Panic"]
  ELSE [res EXCEPT !.emitted = Append(@, BlockIterEntry(res.it))]

\* What the caller holds after the calls that made the block and after the
\* call, in bounds or not, that made the iterator it.
BlockIterResult(stage, built, decoded, target, in_bounds, it) ==
  IF ~in_bounds
  THEN [status |-> "Panic", stage |-> stage, lower |-> Unbounded, upper |-> Unbounded,
        it |-> <<>>, emitted |-> <<>>, last_next |-> "None", after_end |-> 0,
        added |-> built.added, block |-> built.block, decoded |-> decoded,
        target |-> target]
  ELSE BlockIterRead(
         [status |-> "Ok", stage |-> stage, lower |-> Unbounded, upper |-> Unbounded,
          it |-> it, emitted |-> <<>>, last_next |-> "None", after_end |-> 0,
          added |-> built.added, block |-> built.block, decoded |-> decoded,
          target |-> target])

\* Block::decode of Block::encode of the block, and an iterator on its first
\* entry.
DecodedResult(built, decoded) ==
  BlockIterResult("block", built, decoded, <<>>, KeyReadable(decoded, 0),
                  BlockIterCreateAndSeekToFirst(decoded))

FormatBuildBlock ==
  /\ scan_res = NoScan
  /\ Entries # <<>>
  /\ scan_res' = DecodedResult(BuiltBlock, BlockDecode(BlockEncode(BuiltBlock.block)))
  /\ UNCHANGED <<state, mems, next_sst_id, target_sst_size, flushing, puts, ref, flushed,
                 get_res>>

\* BlockIterator::create_and_seek_to_key on the decoded block
FormatCreateAndSeek ==
  \E target \in Keys :
    /\ scan_res.stage = "block"
    /\ scan_res.status = "Ok"
    /\ scan_res.last_next = "None"
    /\ scan_res' = BlockIterResult("seek", scan_res, scan_res.decoded, target,
                                   SeekReadable(scan_res.decoded, target),
                                   BlockIterCreateAndSeekToKey(scan_res.decoded, target))
    /\ UNCHANGED <<state, mems, next_sst_id, target_sst_size, flushing, puts, ref, flushed,
                   get_res>>

\* BlockIterator::seek_to_key on the iterator of the decoded block
FormatSeekToKey ==
  \E target \in Keys :
    /\ scan_res.stage = "block"
    /\ scan_res.status = "Ok"
    /\ scan_res' = BlockIterResult("seek", scan_res, scan_res.decoded, target,
                                   SeekReadable(scan_res.decoded, target),
                                   BlockIterSeekToKey(scan_res.it, target))
    /\ UNCHANGED <<state, mems, next_sst_id, target_sst_size, flushing, puts, ref, flushed,
                   get_res>>

BlockNextResult(res) ==
  IF ~NextReadable(res.it) THEN [res EXCEPT !.status = "Panic"]
  ELSE BlockIterRead([res EXCEPT !.it = BlockIterNext(res.it), !.last_next = "Ok"])

\* BlockIterator::next on a valid iterator
FormatBlockNext ==
  /\ scan_res.stage \in {"block", "seek"}
  /\ scan_res.status = "Ok"
  /\ BlockIterIsValid(scan_res.it)
  /\ scan_res' = BlockNextResult(scan_res)
  /\ UNCHANGED <<state, mems, next_sst_id, target_sst_size, flushing, puts, ref, flushed,
                 get_res>>

SsTableIterEntry(it) == <<SsTableIterKey(it), SsTableIterValue(it)>>

\* The caller reads key() and value() of a valid iterator.
SsTableIterRead(res) ==
  IF ~SsTableIterIsValid(res.it) THEN res
  ELSE IF ~ValueReadable(res.it.blk_iter.block, res.it.blk_iter.idx)
  THEN [res EXCEPT !.status = "Panic"]
  ELSE [res EXCEPT !.emitted = Append(@, SsTableIterEntry(res.it))]

\* The first key of block block_idx of a run, if the block can be read, is
\* readable: BlockIterator::create_and_seek_to_first does not panic.
FirstReadable(table, block_idx) ==
  With(ReadBlock(table, block_idx), LAMBDA r :
    r.status = "Ok" => KeyReadable(r.block, 0))

\* What the caller holds after SsTableIterator::create_and_seek_to_first.
RunResult(entries, table) ==
  IF ~FirstReadable(table, 0)
  THEN [status |-> "Panic", stage |-> "run", lower |-> Unbounded, upper |-> Unbounded,
        it |-> <<>>, emitted |-> <<>>, last_next |-> "None", after_end |-> 0,
        added |-> entries]
  ELSE With(SsTableIterCreateAndSeekToFirst(table), LAMBDA r :
    IF r.status # "Ok"
    THEN [status |-> r.status, stage |-> "run", lower |-> Unbounded, upper |-> Unbounded,
          it |-> <<>>, emitted |-> <<>>, last_next |-> "None", after_end |-> 0,
          added |-> entries]
    ELSE SsTableIterRead(
           [status |-> "Ok", stage |-> "run", lower |-> Unbounded, upper |-> Unbounded,
            it |-> r.it, emitted |-> <<>>, last_next |-> "None", after_end |-> 0,
            added |-> entries]))

\* SsTableBuilder::add of every entry, build, and
\* SsTableIterator::create_and_seek_to_first
FormatBuildRun ==
  /\ scan_res = NoScan
  /\ scan_res' = RunResult(Entries, FlushedSst(0))
  /\ UNCHANGED <<state, mems, next_sst_id, target_sst_size, flushing, puts, ref, flushed,
                 get_res>>

\* SsTableIterator::next does not panic: the next key of the block, or the
\* first key of the next block.
RunNextReadable(it) ==
  /\ NextReadable(it.blk_iter)
  /\ (it.blk_iter.idx + 1 >= it.blk_iter.value_range[2] /\ it.blk_idx + 1 < it.blk_num)
       => FirstReadable(it.table, it.blk_idx + 1)

RunNextResult(res) ==
  IF ~RunNextReadable(res.it) THEN [res EXCEPT !.status = "Panic"]
  ELSE With(SsTableIterNext(res.it), LAMBDA r :
    IF r.err THEN [res EXCEPT !.it = r.it, !.last_next = "Err"]
    ELSE SsTableIterRead([res EXCEPT !.it = r.it, !.last_next = "Ok"]))

\* SsTableIterator::next on a valid iterator
FormatRunNext ==
  /\ scan_res.stage = "run"
  /\ scan_res.status = "Ok"
  /\ scan_res.last_next # "Err"
  /\ SsTableIterIsValid(scan_res.it)
  /\ scan_res' = RunNextResult(scan_res)
  /\ UNCHANGED <<state, mems, next_sst_id, target_sst_size, flushing, puts, ref, flushed,
                 get_res>>

\* A seek to key in a run does not panic: the block find_block_idx names, if
\* it can be read, is searched within its bounds.
RunSeekReadable(table, key) ==
  With(FindBlockIdx(table, key, TRUE), LAMBDA f :
    f.status = "Ok" /\ With(ReadBlockCached(table, f.idx), LAMBDA r :
                          r.status = "Ok" => SeekReadable(r.block, key)))

\* What the caller holds after a seek to target that returned r, on the run
\* of res.
RunSeekResult(res, target, in_bounds, r) ==
  IF ~in_bounds
  THEN [status |-> "Panic", stage |-> "runseek", lower |-> Unbounded, upper |-> Unbounded,
        it |-> <<>>, emitted |-> <<>>, last_next |-> "None", after_end |-> 0,
        added |-> res.added, target |-> target]
  ELSE IF r.status # "Ok"
  THEN [status |-> r.status, stage |-> "runseek", lower |-> Unbounded, upper |-> Unbounded,
        it |-> <<>>, emitted |-> <<>>, last_next |-> "None", after_end |-> 0,
        added |-> res.added, target |-> target]
  ELSE SsTableIterRead(
         [status |-> "Ok", stage |-> "runseek", lower |-> Unbounded, upper |-> Unbounded,
          it |-> r.it, emitted |-> <<>>, last_next |-> "None", after_end |-> 0,
          added |-> res.added, target |-> target])

\* SsTableIterator::create_and_seek_to_key on the run
FormatRunCreateAndSeek ==
  \E target \in Keys :
    /\ scan_res.stage = "run"
    /\ scan_res.status = "Ok"
    /\ scan_res.last_next = "None"
    /\ scan_res' = RunSeekResult(scan_res, target,
                                 RunSeekReadable(scan_res.it.table, target),
                                 SsTableIterCreateAndSeekToKey(scan_res.it.table, target, TRUE))
    /\ UNCHANGED <<state, mems, next_sst_id, target_sst_size, flushing, puts, ref, flushed,
                   get_res>>

\* SsTableIterator::seek_to_key on the iterator of the run, wherever it is
FormatRunSeekToKey ==
  \E target \in Keys :
    /\ scan_res.stage = "run"
    /\ scan_res.status = "Ok"
    /\ scan_res.last_next # "Err"
    /\ scan_res' = RunSeekResult(scan_res, target,
                                 RunSeekReadable(scan_res.it.table, target),
                                 SsTableIterSeekToKey(scan_res.it, target, TRUE))
    /\ UNCHANGED <<state, mems, next_sst_id, target_sst_size, flushing, puts, ref, flushed,
                   get_res>>

\* The caller drops what it holds.
FormatDrop ==
  /\ scan_res # NoScan
  /\ scan_res' = NoScan
  /\ UNCHANGED <<state, mems, next_sst_id, target_sst_size, flushing, puts, ref, flushed,
                 get_res>>

NextFormat ==
  \/ FormatBuildBlock
  \/ FormatCreateAndSeek
  \/ FormatSeekToKey
  \/ FormatBlockNext
  \/ FormatBuildRun
  \/ FormatRunNext
  \/ FormatRunCreateAndSeek
  \/ FormatRunSeekToKey
  \/ FormatDrop

SpecFormat == InitFormat /\ [][NextFormat]_vars

\* ------------------------------------------------- a block builder on its own
\* A BlockBuilder of block size target_sst_size and the add calls made on it,
\* with keys in any order.  scan_res holds the builder, the entries it
\* accepted, the last call and what it returned.

InitBuilder ==
  /\ mems = (0 :> MemTableCreate(0))
  /\ state = LsmStorageStateCreate
  /\ next_sst_id = FirstSstId
  /\ target_sst_size \in {TargetSmall, TargetLarge, DefaultTargetSstSize}
  /\ flushing = {}
  /\ puts = 0
  /\ ref = [k \in Keys |-> <<>>]
  /\ flushed = <<>>
  /\ get_res = NoGet
  /\ scan_res = NoScan

\* BlockBuilder::new
BuilderNew ==
  /\ scan_res = NoScan
  /\ scan_res' = [status |-> "Ok", stage |-> "builder", lower |-> Unbounded,
                  upper |-> Unbounded, it |-> <<>>, emitted |-> <<>>,
                  last_next |-> "None", after_end |-> 0,
                  builder |-> BlockBuilderNew(target_sst_size), added |-> <<>>,
                  adds |-> 0, key |-> <<>>, value |-> <<>>, accepted |-> FALSE]
  /\ UNCHANGED <<state, mems, next_sst_id, target_sst_size, flushing, puts, ref, flushed,
                 get_res>>

\* BlockBuilder::add
BuilderAdd ==
  /\ scan_res.stage = "builder"
  /\ scan_res.adds < MaxAdds
  /\ \E key \in Keys, value \in FormatValues :
       \E r \in {BlockBuilderAdd(scan_res.builder, key, value)} :
         scan_res' = [scan_res EXCEPT
                        !.builder = r.builder,
                        !.added = IF r.accepted THEN Append(@, <<key, value>>) ELSE @,
                        !.adds = @ + 1,
                        !.key = key,
                        !.value = value,
                        !.accepted = r.accepted,
                        !.last_next = "Ok"]
  /\ UNCHANGED <<state, mems, next_sst_id, target_sst_size, flushing, puts, ref, flushed,
                 get_res>>

\* The caller drops the builder.
BuilderDrop ==
  /\ scan_res.stage = "builder"
  /\ scan_res' = NoScan
  /\ UNCHANGED <<state, mems, next_sst_id, target_sst_size, flushing, puts, ref, flushed,
                 get_res>>

NextBuilder == \/ BuilderNew \/ BuilderAdd \/ BuilderDrop

SpecBuilder == InitBuilder /\ [][NextBuilder]_vars

\* -------------------------------------------- a sorted-run builder on its own
\* An SsTableBuilder of block size target_sst_size, the add calls made on it
\* with keys in strictly ascending order, and build.  scan_res holds the
\* builder, the entries added, the byte position in data at which each
\* encoded block was appended and, after build, the run.

\* The keys given to the builder: those of Keys and the key of no bytes.
RunKeys == Keys \cup {<<>>}

\* SsTableBuilder::new
RunBuilderNew ==
  /\ scan_res = NoScan
  /\ scan_res' = [status |-> "Ok", stage |-> "runbuilder", lower |-> Unbounded,
                  upper |-> Unbounded, it |-> <<>>, emitted |-> <<>>,
                  last_next |-> "None", after_end |-> 0,
                  builder |-> SsTableBuilderNew(target_sst_size), added |-> <<>>,
                  starts |-> <<>>]
  /\ UNCHANGED <<state, mems, next_sst_id, target_sst_size, flushing, puts, ref, flushed,
                 get_res>>

\* SsTableBuilder::add of a key greater than the last one added
RunBuilderAdd ==
  /\ scan_res.stage = "runbuilder"
  /\ Len(scan_res.added) < MaxAdds
  /\ \E key \in RunKeys, value \in FormatValues :
       /\ scan_res.added # <<>> =>
            BytesCmp(scan_res.added[Len(scan_res.added)][1], key) = "Less"
       /\ \E sb \in {SsTableBuilderAdd(scan_res.builder, key, value)} :
            scan_res' = [scan_res EXCEPT
                           !.builder = sb,
                           !.added = Append(@, <<key, value>>),
                           !.starts = IF Len(sb.data) > Len(scan_res.builder.data)
                                      THEN Append(@, Len(scan_res.builder.data))
                                      ELSE @]
  /\ UNCHANGED <<state, mems, next_sst_id, target_sst_size, flushing, puts, ref, flushed,
                 get_res>>

\* SsTableBuilder::build
RunBuilderBuild ==
  /\ scan_res.stage = "runbuilder"
  /\ scan_res' = [scan_res EXCEPT
                    !.stage = "runbuilt",
                    !.it = SsTableBuilderBuild(scan_res.builder, next_sst_id),
                    !.starts = Append(@, Len(scan_res.builder.data))]
  /\ UNCHANGED <<state, mems, next_sst_id, target_sst_size, flushing, puts, ref, flushed,
                 get_res>>

\* The caller drops the builder or the run.
RunBuilderDrop ==
  /\ scan_res.stage \in {"runbuilder", "runbuilt"}
  /\ scan_res' = NoScan
  /\ UNCHANGED <<state, mems, next_sst_id, target_sst_size, flushing, puts, ref, flushed,
                 get_res>>

NextRunBuilder == \/ RunBuilderNew \/ RunBuilderAdd \/ RunBuilderBuild \/ RunBuilderDrop

SpecRunBuilder == InitBuilder /\ [][NextRunBuilder]_vars

\* ------------------------------------------------- the block cache of a run
\* The run force_flush_next_imm_memtable builds of memtable 0, with the block
\* cache of the engine attached or with none, and the read_block_cached calls
\* made on it.  scan_res holds the run, the cache, and of the last call the
\* block index, whether its key was in the cache, the number of read_block
\* calls it made and what it returned.

\* Cache::try_get_with(key, || read_block(block_idx)): the value of the key,
\* or what the loader returns, kept when it is Ok; [status, block, blocks,
\* reads].
TryGetWith(blocks, t, block_idx) ==
  IF <<t.id, block_idx>> \in DOMAIN blocks
  THEN [status |-> "Ok", block |-> blocks[<<t.id, block_idx>>], blocks |-> blocks,
        reads |-> 0]
  ELSE With(ReadBlock(t, block_idx), LAMBDA r :
         IF r.status # "Ok"
         THEN [status |-> "Err", block |-> <<>>, blocks |-> blocks, reads |-> 1]
         ELSE [status |-> "Ok", block |-> r.block,
               blocks |-> (<<t.id, block_idx>> :> r.block) @@ blocks, reads |-> 1])

\* SsTable::read_block_cached with the cache and the count of its read_block
\* calls: `.map(closure)` runs try_get_with when a cache is attached, then
\* the argument of unwrap_or, `Ok(self.read_block(block_idx)?)`, is evaluated
\* and its error returned, and the result is that of the closure if there is
\* one; [status, block, blocks, reads].
ReadBlockCachedIn(t, block_cache, block_idx) ==
  LET mapped == IF block_cache # None
                THEN Some(TryGetWith(block_cache[1], t, block_idx))
                ELSE None
      blocks == IF mapped # None THEN mapped[1].blocks ELSE <<>>
      reads == (IF mapped # None THEN mapped[1].reads ELSE 0) + 1
  IN With(ReadBlock(t, block_idx), LAMBDA default :
       IF default.status # "Ok"
       THEN [status |-> "Err", block |-> <<>>, blocks |-> blocks, reads |-> reads]
       ELSE IF mapped # None
       THEN [status |-> mapped[1].status, block |-> mapped[1].block,
             blocks |-> blocks, reads |-> reads]
       ELSE [status |-> "Ok", block |-> default.block, blocks |-> blocks,
             reads |-> reads])

InitCache ==
  /\ \E ks \in SUBSET Keys, values \in [Keys -> Values] :
       mems = (0 :> PutEach(MemTableCreate(0), Ascending(ks), values))
  /\ state = LsmStorageStateCreate
  /\ next_sst_id = FirstSstId
  /\ target_sst_size \in {TargetSmall, TargetLarge}
  /\ flushing = {}
  /\ puts = 0
  /\ ref = [k \in Keys |-> <<>>]
  /\ flushed = <<>>
  /\ get_res = NoGet
  /\ scan_res = NoScan

\* SsTableBuilder::build with the block cache of the engine, or with None
CacheBuild ==
  /\ scan_res = NoScan
  /\ \E block_cache \in {None, Some(<<>>)} :
       scan_res' = [status |-> "Ok", stage |-> "cache", lower |-> Unbounded,
                    upper |-> Unbounded, it |-> FlushedSst(0), emitted |-> <<>>,
                    last_next |-> "None", after_end |-> 0,
                    block_cache |-> block_cache, block_idx |-> 0, cached |-> FALSE,
                    reads |-> 0, block |-> <<>>]
  /\ UNCHANGED <<state, mems, next_sst_id, target_sst_size, flushing, puts, ref, flushed,
                 get_res>>

\* SsTable::read_block_cached of a block of the run, or of the index after
\* its last block
CacheRead ==
  /\ scan_res.stage = "cache"
  /\ \E block_idx \in 0..Len(scan_res.it.block_meta) :
       \E r \in {ReadBlockCachedIn(scan_res.it, scan_res.block_cache, block_idx)} :
         scan_res' = [scan_res EXCEPT
                        !.status = r.status,
                        !.last_next = "Ok",
                        !.block_cache = IF @ # None THEN Some(r.blocks) ELSE None,
                        !.block_idx = block_idx,
                        !.cached = /\ scan_res.block_cache # None
                                   /\ <<scan_res.it.id, block_idx>>
                                        \in DOMAIN scan_res.block_cache[1],
                        !.reads = r.reads,
                        !.block = r.block]
  /\ UNCHANGED <<state, mems, next_sst_id, target_sst_size, flushing, puts, ref, flushed,
                 get_res>>

\* The caller drops the run.
CacheDrop ==
  /\ scan_res.stage = "cache"
  /\ scan_res' = NoScan
  /\ UNCHANGED <<state, mems, next_sst_id, target_sst_size, flushing, puts, ref, flushed,
                 get_res>>

NextCache == \/ CacheBuild \/ CacheRead \/ CacheDrop

SpecCache == InitCache /\ [][NextCache]_vars

\* --------------------------------------------- a memtable iterator on its own
\* Memtable 0 after puts of keys out of RunKeys, and a MemTableIterator on
\* it.  scan_res holds the bounds, the iterator and the entries the caller
\* has read from it while it was valid.

InitMemIter ==
  /\ \E ks \in SUBSET RunKeys, values \in [RunKeys -> Values] :
       mems = (0 :> PutEach(MemTableCreate(0), Ascending(ks), values))
  /\ state = LsmStorageStateCreate
  /\ next_sst_id = FirstSstId
  /\ target_sst_size = TargetLarge
  /\ flushing = {}
  /\ puts = 0
  /\ ref = [k \in Keys |-> <<>>]
  /\ flushed = <<>>
  /\ get_res = NoGet
  /\ scan_res = NoScan

\* The caller reads key() and value() of a valid iterator.
MemIterRead(res) ==
  IF MemTableIterIsValid(res.it)
  THEN [res EXCEPT !.emitted = Append(@, <<MemTableIterKey(res.it),
                                           MemTableIterValue(res.it)>>)]
  ELSE res

\* MemTable::scan
MemIterScan ==
  /\ scan_res = NoScan
  /\ \E lower \in LowerBounds, upper \in UpperBounds :
       scan_res' = MemIterRead([status |-> "Ok", stage |-> "memscan", lower |-> lower,
                                upper |-> upper, it |-> MemTableScan(0, lower, upper),
                                emitted |-> <<>>, last_next |-> "None", after_end |-> 0])
  /\ UNCHANGED <<state, mems, next_sst_id, target_sst_size, flushing, puts, ref, flushed,
                 get_res>>

\* MemTableIterator::next on a valid iterator
MemIterNext ==
  /\ scan_res.stage = "memscan"
  /\ MemTableIterIsValid(scan_res.it)
  /\ scan_res' = MemIterRead([scan_res EXCEPT !.it = MemTableIterNext(scan_res.it).it,
                                              !.last_next = "Ok"])
  /\ UNCHANGED <<state, mems, next_sst_id, target_sst_size, flushing, puts, ref, flushed,
                 get_res>>

\* The caller drops the iterator.
MemIterDrop ==
  /\ scan_res.stage = "memscan"
  /\ scan_res' = NoScan
  /\ UNCHANGED <<state, mems, next_sst_id, target_sst_size, flushing, puts, ref, flushed,
                 get_res>>

NextMemIter == \/ MemIterScan \/ MemIterNext \/ MemIterDrop

SpecMemIter == InitMemIter /\ [][NextMemIter]_vars

\* ----------------------------------------------------- the files of the runs
\* The name force_flush_next_imm_memtable gives the file of a run and the
\* name path_of_sst gives for the same id.  A string is the sequence of its
\* characters, a path the sequence of its components.  scan_res holds the id
\* of the memtable flushed, the path of the file written and path_of_sst(id).

DigitChar(d) == <<"0", "1", "2", "3", "4", "5", "6", "7", "8", "9">>[d + 1]

\* format!("{}", n): the decimal digits of n, with no leading zero.
RECURSIVE FormatDecimal(_)
FormatDecimal(n) ==
  IF n < 10 THEN <<DigitChar(n)>>
  ELSE Append(FormatDecimal(n \div 10), DigitChar(n % 10))

\* format!("{:0width$}", n): the decimal digits of n, with zeros in front of
\* them up to the width.
FormatZeroPadded(n, width) ==
  With(FormatDecimal(n), LAMBDA digits :
    IF Len(digits) >= width THEN digits
    ELSE [i \in 1..(width - Len(digits)) |-> "0"] \o digits)

\* Path::join
PathJoin(path, name) == Append(path, name)

\* LsmStorageInner::path_of_sst_static
PathOfSstStatic(path, id) == PathJoin(path, FormatZeroPadded(id, 5) \o <<".", "s", "s", "t">>)

\* The path force_flush_next_imm_memtable gives SsTableBuilder::build.
NewSstPath(path, id) == PathJoin(path, FormatDecimal(id) \o <<".", "s", "s", "t">>)

\* The ids of the memtables flushed.
NameIds == 0..MaxNameId

\* force_flush_next_imm_memtable of the memtable with an id: the path of the
\* file it writes, and path_of_sst of the id.
NameFlush ==
  /\ scan_res = NoScan
  /\ \E id \in NameIds :
       scan_res' = [status |-> "Ok", stage |-> "name", lower |-> Unbounded,
                    upper |-> Unbounded, it |-> <<>>, emitted |-> <<>>,
                    last_next |-> "None", after_end |-> 0,
                    id |-> id, path |-> <<"lsm">>,
                    written |-> NewSstPath(<<"lsm">>, id),
                    path_of_sst |-> PathOfSstStatic(<<"lsm">>, id)]
  /\ UNCHANGED <<state, mems, next_sst_id, target_sst_size, flushing, puts, ref, flushed,
                 get_res>>

NameDrop ==
  /\ scan_res.stage = "name"
  /\ scan_res' = NoScan
  /\ UNCHANGED <<state, mems, next_sst_id, target_sst_size, flushing, puts, ref, flushed,
                 get_res>>

NextName == \/ NameFlush \/ NameDrop

SpecName == InitBuilder /\ [][NextName]_vars

\* --------------------------------------------------------------- reference
\* The ordered map the engine refines: a key is live when its last write has
\* a non-empty value.

Live(k) == LastWrite(k) # None /\ LastWrite(k) # Some(<<>>)

InLower(k, lower) ==
  CASE lower.kind = "Included" -> BytesCmp(k, lower.key) # "Less"
    [] lower.kind = "Excluded" -> BytesCmp(k, lower.key) = "Greater"
    [] OTHER -> TRUE

InUpper(k, upper) ==
  CASE upper.kind = "Included" -> BytesCmp(k, upper.key) # "Greater"
    [] upper.kind = "Excluded" -> BytesCmp(k, upper.key) = "Less"
    [] OTHER -> TRUE

\* The live entries within the bounds, in ascending key order.
Expected(lower, upper) ==
  LET ks == Ascending({k \in Keys : Live(k) /\ InLower(k, lower) /\ InUpper(k, upper)})
  IN [i \in 1..Len(ks) |-> <<ks[i], LastWrite(ks[i])[1]>>]

IsPrefix(s, t) == Len(s) <= Len(t) /\ SubSeq(t, 1, Len(s)) = s

\* The scan is over: it returned an error, or its iterator is invalid.
ScanDone ==
  /\ scan_res.status # "None"
  /\ scan_res.status = "Ok" => ~FusedIsValid(scan_res.it)

\* What the scan has emitted is the start of the live entries of its range,
\* and all of them once the scan is over.
ScanEmitsExactly ==
  /\ IsPrefix(scan_res.emitted, Expected(scan_res.lower, scan_res.upper))
  /\ ScanDone => scan_res.emitted = Expected(scan_res.lower, scan_res.upper)

\* The memtables of the published state.
MemtableIds ==
  {state.memtable} \cup {state.imm_memtables[i] : i \in 1..Len(state.imm_memtables)}

StoredInMemtable(k) == \E m \in MemtableIds : k \in DOMAIN mems[m].map

\* The positions in the L0 list (newest first) of the runs that store k.
RunsStoring(k) ==
  {i \in 1..Len(state.l0_sstables) : k \in DOMAIN flushed[state.l0_sstables[i]]}

NewestRunValue(k) ==
  LET i == CHOOSE n \in RunsStoring(k) : \A o \in RunsStoring(k) : n <= o
  IN flushed[state.l0_sstables[i]][k]

\* Every flushed memtable held entries.
NonEmptyRuns == \A id \in DOMAIN flushed : flushed[id] # <<>>

\* A put of a non-empty value under k, then a delete of k as its last write.
DeletedAfterPut(k) ==
  /\ Len(ref[k]) >= 2
  /\ ref[k][Len(ref[k])] = <<>>
  /\ \E i \in 1..(Len(ref[k]) - 1) : ref[k][i] # <<>>

\* The LsmIterator under the iterator of the scan.
ScanLsmIter == scan_res.it.iter

\* The key the LsmIterator is on is a live key beyond its end bound.
Overrun(l) ==
  /\ LsmIterIsValid(l)
  /\ LsmIterValue(l) # <<>>
  /\ ~InUpper(LsmIterKey(l), l.end_bound)

\* ------------------------------------------------------------------ claims

\* C1: read-your-writes.  In a single thread, a get of key k whose last write
\* was a put of a non-empty value v returns Ok(Some(v)), through any number of
\* freezes and flushes in between.
C1_ReadYourWrites ==
  (get_res.status # "None" /\ Live(get_res.key))
    => (get_res.status = "Ok" /\ get_res.value = LastWrite(get_res.key))

\* C2: L0 point lookup.  When k is stored in no memtable, get(k) returns the
\* value stored under k in the newest L0 run that stores k (absent when that
\* value is empty), whatever the position of k in its block, and absent when
\* no run stores k.  Stated for the L0 runs that hold entries.
C2_L0PointLookup ==
  (/\ get_res.status # "None"
   /\ ~StoredInMemtable(get_res.key)
   /\ NonEmptyRuns)
    => /\ get_res.status = "Ok"
       /\ get_res.value = IF RunsStoring(get_res.key) = {} THEN None
                          ELSE OptionOfValue(NewestRunValue(get_res.key))

\* C3: tombstone precedence.  After put(k, v) followed by delete(k), with no
\* later put of k, a get of k returns absent and a scan does not emit k,
\* whether the tombstone is in a memtable or in a flushed run.
C3_TombstonePrecedence ==
  \A k \in Keys :
    DeletedAfterPut(k)
      => /\ (get_res.status # "None" /\ get_res.key = k)
              => (get_res.status = "Ok" /\ get_res.value = None)
         /\ \A i \in 1..Len(scan_res.emitted) : scan_res.emitted[i][1] # k

\* C4: monotonic visibility.  Once a get of k has returned the non-empty value
\* of the last write to k, every later get of k, with no write to k in
\* between, returns that value, also while a freeze or a flush is under way.
C4_MonotonicVisibility ==
  get_res.after => (get_res.status = "Ok" /\ get_res.value = LastWrite(get_res.key))

\* C5: full scan.  After any single-threaded sequence of put, delete,
\* force_freeze_memtable and force_flush_next_imm_memtable,
\* scan(Unbounded, Unbounded) emits exactly the live entries of the reference
\* map, in ascending key order, each once.
C5_FullScanRefinesMap ==
  (scan_res.status # "None" /\ scan_res.lower = Unbounded /\ scan_res.upper = Unbounded)
    => ScanEmitsExactly

\* C6: range scan.  scan(Included(l), Excluded(u)) with l < u emits exactly the
\* live entries with l <= key < u, in ascending order, and then its iterator
\* is invalid.  Stated for the L0 runs that hold entries.
C6_RangeScan ==
  (/\ scan_res.status # "None"
   /\ NonEmptyRuns
   /\ scan_res.lower.kind = "Included"
   /\ scan_res.upper.kind = "Excluded"
   /\ BytesCmp(scan_res.lower.key, scan_res.upper.key) = "Less")
    => ScanEmitsExactly

\* C7: a valid LsmIterator is within its end bound.  After construction and
\* after any next(), whatever it returned, is_valid() implies that key() is
\* within the upper bound of the scan.
C7_ValidWithinEndBound ==
  (scan_res.status = "Ok" /\ LsmIterIsValid(ScanLsmIter))
    => InUpper(LsmIterKey(ScanLsmIter), scan_res.upper)

\* C8: an upper-bound overrun is not an error.  LsmIterator::new does not
\* return Err for it (scan returns an iterator), next() does not return Err
\* for it, and it does not set the latch of the FusedIterator.
C8_OverrunIsNotAnError ==
  /\ scan_res.stage # "lsm"
  /\ (scan_res.status = "Ok" /\ Overrun(ScanLsmIter))
       => (scan_res.last_next # "Err" /\ ~scan_res.it.has_errored)

\* C9: no tombstone is surfaced.  Whenever the LsmIterator is valid after its
\* construction or after a successful next(), value() is non-empty: a run of
\* consecutive tombstones is passed as a whole, and no entry read from the
\* iterator has an empty value.
C9_NoTombstoneSurfaced ==
  /\ (scan_res.status = "Ok" /\ scan_res.last_next # "Err" /\ LsmIterIsValid(ScanLsmIter))
       => LsmIterValue(ScanLsmIter) # <<>>
  /\ \A i \in 1..Len(scan_res.emitted) : scan_res.emitted[i][2] # <<>>

\* C9, its case: the two smallest keys are tombstones the sources hold, and
\* the iterator of a full scan is valid on the third key, which is live.
C9_TombstoneRunSkipped ==
  /\ scan_res.status = "Ok"
  /\ scan_res.lower = Unbounded
  /\ scan_res.last_next = "None"
  /\ LastWrite(<<1>>) = Some(<<>>)
  /\ LastWrite(<<2>>) = Some(<<>>)
  /\ LsmIterIsValid(ScanLsmIter)
  /\ LsmIterKey(ScanLsmIter) = <<3>>
  /\ LsmIterValue(ScanLsmIter) = <<7>>

\* C10: excluded lower bound.  scan(Excluded(k), upper) emits every live key
\* greater than k within upper, and never k, both when k is stored in an L0
\* run and when it is not.  Stated for the L0 runs that hold entries.
C10_ExcludedLowerBound ==
  (scan_res.status # "None" /\ scan_res.lower.kind = "Excluded" /\ NonEmptyRuns)
    => ScanEmitsExactly

\* The L0 runs of the published state all of whose keys are smaller than key.
RunsBelow(key) ==
  {i \in 1..Len(state.l0_sstables) :
     /\ flushed[state.l0_sstables[i]] # <<>>
     /\ \A k \in DOMAIN flushed[state.l0_sstables[i]] : BytesCmp(k, key) = "Less"}

\* C11: a run below the lower bound.  When every key of some L0 run is smaller
\* than the lower bound of a scan, the scan does not fail on that run: the run
\* contributes an iterator that is invalid from the start, and scan returns
\* an iterator.  Stated for the L0 runs that hold entries.
C11_RunBelowLowerBound ==
  (/\ scan_res.status # "None"
   /\ NonEmptyRuns
   /\ scan_res.lower.kind # "Unbounded"
   /\ RunsBelow(scan_res.lower.key) # {})
    => scan_res.stage # "sst"

\* C12: the FusedIterator is error-sticky.  A next() that returns an error
\* leaves the latch set; with the latch set is_valid() is false, and every
\* later next() returns an error and leaves the iterator, the inner iterator
\* included, as it was.
C12_ErrorSticky ==
  /\ [](scan_res.status = "Ok" /\ scan_res.last_next = "Err"
          => scan_res.it.has_errored)
  /\ [](scan_res.status = "Ok" /\ scan_res.it.has_errored
          => ~FusedIsValid(scan_res.it))
  /\ [][(scan_res.status = "Ok" /\ scan_res.it.has_errored /\ scan_res'.status = "Ok")
          => /\ scan_res'.last_next = "Err"
             /\ scan_res'.it = scan_res.it
             /\ ~FusedIsValid(scan_res'.it)]_vars

\* C12, its case: the latch is set, the inner iterator is still on an entry,
\* and next() has been called again, more than once, and returned an error.
C12_CalledAfterError ==
  /\ scan_res.status = "Ok"
  /\ scan_res.it.has_errored
  /\ LsmIterIsValid(ScanLsmIter)
  /\ scan_res.after_end = MaxAfterEnd
  /\ scan_res.last_next = "Err"

\* C13: the FusedIterator is exhaustion-sticky.  When the inner iterator is
\* not valid and the latch is not set, next() returns Ok and leaves the
\* iterator as it was: is_valid() stays false.
C13_ExhaustionSticky ==
  [][(/\ scan_res.status = "Ok"
      /\ ~scan_res.it.has_errored
      /\ ~LsmIterIsValid(ScanLsmIter)
      /\ scan_res'.status = "Ok")
       => /\ scan_res'.last_next = "Ok"
          /\ scan_res'.it = scan_res.it
          /\ ~FusedIsValid(scan_res'.it)]_vars

\* C13, its case: a scan that emitted entries has reached its end without an
\* error, and next() has been called again, more than once.
C13_CalledAfterEnd ==
  /\ scan_res.status = "Ok"
  /\ ~scan_res.it.has_errored
  /\ ~LsmIterIsValid(ScanLsmIter)
  /\ scan_res.emitted # <<>>
  /\ scan_res.after_end = MaxAfterEnd
  /\ scan_res.last_next = "Ok"

\* The keys of a list of inputs.
InputKeys(inputs) == UNION {DOMAIN mems[inputs[i]].map : i \in 1..Len(inputs)}

\* The first input of the list that holds k.
Winner(inputs, k) ==
  inputs[CHOOSE i \in 1..Len(inputs) :
           /\ k \in DOMAIN mems[inputs[i]].map
           /\ \A j \in 1..(i - 1) : k \notin DOMAIN mems[inputs[j]].map]

\* The keys of what the caller has read.
EmittedKeys == [i \in 1..Len(scan_res.emitted) |-> scan_res.emitted[i][1]]

\* C14: MergeIterator ordering.  Over inputs that each yield ascending keys,
\* no next() fails, the keys read from the MergeIterator are the keys of the
\* inputs in strictly ascending order, each once, and all of them once the
\* iterator is invalid.
C14_MergeOrdering ==
  scan_res.stage = "merge"
    => /\ scan_res.last_next # "Err"
       /\ IsPrefix(EmittedKeys, Ascending(InputKeys(scan_res.a)))
       /\ ~MergeIterIsValid(scan_res.it)
            => EmittedKeys = Ascending(InputKeys(scan_res.a))

\* C14, its case: three inputs with a key they share and keys of their own,
\* merged and read to the end.
C14_MergedToTheEnd ==
  /\ scan_res.stage = "merge"
  /\ Len(scan_res.a) = 3
  /\ \E k \in Keys : \A i \in InputIds : k \in DOMAIN mems[i].map
  /\ \A i \in InputIds : DOMAIN mems[i].map # Keys
  /\ ~MergeIterIsValid(scan_res.it)
  /\ Len(scan_res.emitted) = 3

\* C15: MergeIterator precedence.  An entry read under key k carries the value
\* of the first input of the list given to create that holds k, also when
\* inputs before it in the list are invalid, and k is read once: the other
\* inputs are moved past it.
C15_MergePrecedence ==
  scan_res.stage = "merge"
    => \A i \in 1..Len(scan_res.emitted) :
         /\ scan_res.emitted[i][2] = InputValue(Winner(scan_res.a, scan_res.emitted[i][1]))
         /\ \A j \in 1..Len(scan_res.emitted) :
              scan_res.emitted[j][1] = scan_res.emitted[i][1] => j = i

\* C15, its case: the first input of the list is invalid, the second and the
\* third hold the same key, and the entry read under it is the second's.
C15_SecondOfThreeWins ==
  /\ scan_res.stage = "merge"
  /\ Len(scan_res.a) = 3
  /\ MemTableIsEmpty(mems[0])
  /\ \E i \in 1..Len(scan_res.emitted) :
       /\ scan_res.emitted[i][1] \in DOMAIN mems[1].map
       /\ scan_res.emitted[i][1] \in DOMAIN mems[2].map
       /\ scan_res.emitted[i][2] = InputValue(1)
       /\ i > 1

\* C16: TwoMergeIterator, A wins.  The entries read are the keys of A and B in
\* strictly ascending order, each once; a key of both carries A's value, and
\* B's entry for it is not read.
C16_TwoMergeAWins ==
  scan_res.stage = "two"
    => /\ scan_res.last_next # "Err"
       /\ IsPrefix(EmittedKeys, Ascending(InputKeys(scan_res.a \o scan_res.b)))
       /\ ~TwoMergeIsValid(scan_res.it)
            => EmittedKeys = Ascending(InputKeys(scan_res.a \o scan_res.b))
       /\ \A i \in 1..Len(scan_res.emitted) :
            scan_res.emitted[i][2]
              = InputValue(Winner(scan_res.a \o scan_res.b, scan_res.emitted[i][1]))

\* C16, its case: A and B are one input each, they share a key that is
\* neither the first nor the last entry read, and all has been read.
C16_SharedKeyRead ==
  /\ scan_res.stage = "two"
  /\ Len(scan_res.a) = 1
  /\ ~TwoMergeIsValid(scan_res.it)
  /\ Len(scan_res.emitted) = 3
  /\ scan_res.emitted[2][1] \in DOMAIN mems[0].map
  /\ scan_res.emitted[2][1] \in DOMAIN mems[1].map
  /\ scan_res.emitted[2][2] = InputValue(0)

\* C17: block round trip.  For a block a BlockBuilder made of one entry or
\* more, Block::decode of Block::encode has the data and the offsets of the
\* block, and an iterator on the decoded block, from its first entry, reads
\* the added entries in the order they were added, without a panic.
C17_BlockRoundTrip ==
  scan_res.stage = "block"
    => /\ scan_res.decoded = scan_res.block
       /\ scan_res.status = "Ok"
       /\ IsPrefix(scan_res.emitted, scan_res.added)
       /\ ~BlockIterIsValid(scan_res.it) => scan_res.emitted = scan_res.added

\* C18: sorted-run round trip.  For a run an SsTableBuilder made of an
\* ascending sequence of entries, with any block size,
\* create_and_seek_to_first succeeds, no next() fails, and the entries read
\* up to the end are the entries added, in order.  Stated for sequences of one
\* entry or more.
C18_RunRoundTrip ==
  (scan_res.stage = "run" /\ scan_res.added # <<>>)
    => /\ scan_res.status = "Ok"
       /\ scan_res.last_next # "Err"
       /\ IsPrefix(scan_res.emitted, scan_res.added)
       /\ ~SsTableIterIsValid(scan_res.it) => scan_res.emitted = scan_res.added

\* The entries of a list from the first one whose key is not smaller than
\* target.
LowerBoundSuffix(entries, target) ==
  LET from == {i \in 1..Len(entries) : BytesCmp(entries[i][1], target) # "Less"}
  IN IF from = {} THEN <<>>
     ELSE SubSeq(entries, CHOOSE i \in from : \A j \in from : i <= j, Len(entries))

\* C20: the seek of a BlockIterator is a lower bound on key and value.  After
\* create_and_seek_to_key(block, t) or seek_to_key(t) the iterator is on the
\* first entry whose key is >= t: key() and value() are those of that entry,
\* and the next() calls after it read the entries that follow, in order; when
\* there is no such entry the iterator is invalid.  Stated for the blocks whose
\* data is within the range of a u16 offset.
C20_SeekIsLowerBound ==
  (scan_res.stage = "seek" /\ Len(scan_res.block.data) <= 65535)
    => /\ scan_res.status = "Ok"
       /\ IsPrefix(scan_res.emitted, LowerBoundSuffix(scan_res.added, scan_res.target))
       /\ LowerBoundSuffix(scan_res.added, scan_res.target) # <<>> => scan_res.emitted # <<>>
       /\ ~BlockIterIsValid(scan_res.it)
            => scan_res.emitted = LowerBoundSuffix(scan_res.added, scan_res.target)

\* The thread holds the RwLock around state: it has a read guard or the
\* writer bit.
HoldsRw(t) == t \in scan_res.readers \/ scan_res.writer = t

InCall(t) == scan_res.th[t].pc # "idle"

\* The thread is not waiting: it asks for no lock, or for one it is granted.
Runs(t) ==
  \/ Requests(scan_res.th[t].pc) = "none"
  \/ /\ Requests(scan_res.th[t].pc) = "state_lock"
     /\ scan_res.state_lock = NoThread
  \/ /\ Requests(scan_res.th[t].pc) \in {"read", "write"}
     /\ scan_res.writer = NoThread
  \/ /\ Requests(scan_res.th[t].pc) = "drain"
     /\ scan_res.readers = {}

LockOrder ==
  \A t \in Threads :
    /\ Requests(scan_res.th[t].pc) = "state_lock" => ~HoldsRw(t)
    /\ Requests(scan_res.th[t].pc) \in {"read", "write"} => ~HoldsRw(t)
    /\ Requests(scan_res.th[t].pc) = "drain" => t \notin scan_res.readers

NoDeadlock ==
  (\E t \in Threads : InCall(t))
    => \E t \in Threads : InCall(t) /\ Runs(t)

AllBelow(entries, target) ==
  \A i \in 1..Len(entries) : BytesCmp(entries[i][1], target) = "Less"

\* C21: a seek in a sorted run (create_and_seek_to_key or seek_to_key) to a
\* target greater than every key of the run returns Ok and leaves an iterator
\* that is not valid, wherever the iterator was before.
C21_RunSeekPastEnd ==
  (scan_res.stage = "runseek" /\ AllBelow(scan_res.added, scan_res.target))
    => /\ scan_res.status = "Ok"
       /\ ~SsTableIterIsValid(scan_res.it)

\* The entries a block holds, read from its first entry on.
RECURSIVE BlockEntriesFrom(_)
BlockEntriesFrom(it) ==
  IF BlockIterIsValid(it)
  THEN <<<<BlockIterKey(it), BlockIterValue(it)>>>> \o BlockEntriesFrom(BlockIterNext(it))
  ELSE <<>>

\* The entries a run holds, block after block, decoded from its file.
RECURSIVE RunEntriesFrom(_, _)
RunEntriesFrom(table, block_idx) ==
  IF block_idx >= Len(table.block_meta) THEN <<>>
  ELSE BlockEntriesFrom(BlockIterCreateAndSeekToFirst(ReadBlock(table, block_idx).block))
         \o RunEntriesFrom(table, block_idx + 1)

\* The entries of a memtable in key order, tombstones included.
MemEntries(mem) ==
  LET ks == Ascending(DOMAIN mem.map)
  IN [i \in 1..Len(ks) |-> <<ks[i], mem.map[ks[i]]>>]

\* A step that installed a run.
RunInstalled == state'.l0_sstables # state.l0_sstables

C23_FlushFailureLosesNothing ==
  (scan_res.stage = "flush" /\ scan_res.status = "Err")
    => /\ state = scan_res.before
       /\ state.imm_memtables # <<>>
       /\ state.imm_memtables[Len(state.imm_memtables)] = scan_res.imm.id
       /\ \A k \in (DOMAIN scan_res.imm.map) \ scan_res.newer :
            Get(state, k, TRUE) =
              [status |-> "Ok", value |-> OptionOfValue(scan_res.imm.map[k])]

\* A step that replaced the active memtable.
Frozen == state'.memtable # state.memtable

\* C24: force_freeze_memtable installs a state whose active memtable is new
\* and empty and whose imm_memtables is the previous active memtable followed
\* by the previous imm_memtables in their order; l0_sstables, levels and
\* sstables are the same; the immutable memtables hold what they held, and the
\* previous active memtable holds what it held (with the entry of the put that
\* triggered the freeze, when one did), none of it in the new memtable.
C24_FreezeEffect ==
  [][Frozen =>
       LET old == state.memtable
           new == state'.memtable
       IN /\ new \notin DOMAIN mems
          /\ new \notin DOMAIN state.sstables
          /\ mems'[new].map = <<>>
          /\ state'.imm_memtables = <<old>> \o state.imm_memtables
          /\ state'.l0_sstables = state.l0_sstables
          /\ state'.levels = state.levels
          /\ state'.sstables = state.sstables
          /\ \A m \in (DOMAIN mems) \ {old} : mems'[m] = mems[m]
          /\ DOMAIN mems' = {new} \cup DOMAIN mems
          /\ IF puts' = puts
             THEN mems'[old] = mems[old]
             ELSE \E k \in Keys :
                    /\ ref'[k] # ref[k]
                    /\ DOMAIN mems'[old].map = {k} \cup DOMAIN mems[old].map
                    /\ mems'[old].map[k] = ref'[k][Len(ref'[k])]
                    /\ \A j \in (DOMAIN mems[old].map) \ {k} :
                         mems'[old].map[j] = mems[old].map[j]]_vars

\* A memtable with entries was frozen in front of an older immutable memtable
\* that has entries too.
C24_FrozenOverOlder ==
  /\ Len(state.imm_memtables) = 2
  /\ mems[state.imm_memtables[1]].map # <<>>
  /\ mems[state.imm_memtables[2]].map # <<>>
  /\ scan_res = NoScan

\* The thread is in the try_freeze of a put or delete.
InTryFreeze(t) ==
  /\ scan_res.th[t].op \in {"put", "delete"}
  /\ scan_res.th[t].pc \in {"tf_lock", "tf_read", "tf_check", "freeze_new",
                            "freeze_write", "freeze_drain", "freeze_swap"}

\* The force_freeze_memtable called by the try_freeze of thread t installs
\* its state.
TryFreezePush(t) ==
  /\ InTryFreeze(t)
  /\ scan_res.th[t].pc = "freeze_swap"
  /\ state'.memtable # state.memtable

\* C25: with target_sst_size >= 1 and concurrent puts, an active memtable
\* larger than target_sst_size has a put in try_freeze that will freeze it;
\* the memtable a try_freeze pushes onto imm_memtables is larger than
\* target_sst_size and has received an insert, and it is pushed once: a put
\* that saw the overflow of a memtable another put has frozen since does not
\* freeze the fresh one.
C25_OneFreezePerOverflow ==
  /\ [](mems[state.memtable].approximate_size > target_sst_size
          => \E t \in Threads : InTryFreeze(t))
  /\ [][\A t \in Threads : TryFreezePush(t) =>
          /\ mems[state.memtable].approximate_size > target_sst_size
          /\ mems[state.memtable].map # <<>>
          /\ \A i \in 1..Len(state.imm_memtables) :
               state.imm_memtables[i] # state.memtable]_vars

\* A put that saw the overflow holds state_lock and reads the size of the
\* fresh memtable another put has installed.
C25_LaterPutRechecks ==
  /\ scan_res.stage = "lock"
  /\ \E t \in Threads :
       /\ scan_res.th[t].op = "put"
       /\ scan_res.th[t].pc = "tf_check"
       /\ mems[state.memtable].map = <<>>
       /\ state.imm_memtables # <<>>
       /\ mems[state.imm_memtables[1]].approximate_size > target_sst_size

\* The live memtables that are not the active one: those of imm_memtables and
\* those a flush has popped and still reads.
SwappedOut == (DOMAIN mems) \ {state.memtable}

\* C26: under any interleaving of put and delete with try_freeze and
\* force_freeze_memtable, a step leaves every memtable that is not the active
\* one with the entries and the size it had: an insert goes to the memtable
\* that is active when it is applied, and a memtable never changes after it
\* has left the active slot.
C26_FrozenMeansImmutable ==
  [][\A m \in SwappedOut : m \in DOMAIN mems' => mems'[m] = mems[m]]_vars

\* A put holds the write guard and is about to insert while a memtable with
\* entries is in imm_memtables and another writer waits for the guard.
C26_InsertBesideFrozen ==
  /\ scan_res.stage = "lock"
  /\ state.imm_memtables # <<>>
  /\ mems[state.imm_memtables[1]].map # <<>>
  /\ \E t, u \in Threads :
       /\ scan_res.th[t].pc = "put_insert"
       /\ Requests(scan_res.th[u].pc) = "write"

\* C27: a get(k) that reads the active memtable while a put(k, v2) overwrites
\* the value v1 the memtable holds for k returns Ok with v1 or v2 (absent for
\* a tombstone): it does not find k missing and go on to the immutable
\* memtables and the runs.
C27_AtomicOverwrite ==
  (scan_res.stage = "overwrite" /\ "racing" \in DOMAIN get_res /\ get_res.racing # None)
    => /\ get_res.status = "Ok"
       /\ get_res.value \in {OptionOfValue(get_res.racing[1].old[1]),
                             OptionOfValue(get_res.racing[1].value)}

\* Memtable a was frozen after memtable b: force_freeze_memtable takes the id
\* of the new memtable from next_sst_id and swaps it in under one hold of
\* state_lock, so the memtables are frozen in the order of their ids.  A run
\* has the id of the memtable it was flushed from.
FrozenLater(a, b) == a > b

\* C28: under any interleaving of concurrent force_flush_next_imm_memtable
\* calls, of two ids in l0_sstables the one at the smaller index was flushed
\* from the memtable that was frozen later.
C28_L0RecencyOrder ==
  \A i, j \in 1..Len(state.l0_sstables) :
    i < j => FrozenLater(state.l0_sstables[i], state.l0_sstables[j])

\* The memtables and the runs a version refers to.
Refers(version) ==
  {version.memtable}
    \cup {version.imm_memtables[i] : i \in 1..Len(version.imm_memtables)}
    \cup {version.l0_sstables[i] : i \in 1..Len(version.l0_sstables)}

\* The runs a version has.
RunsOf(version) == {version.l0_sstables[i] : i \in 1..Len(version.l0_sstables)}

\* C29: while concurrent force_freeze_memtable and
\* force_flush_next_imm_memtable calls install new versions, every version
\* published so far (a reader may hold any of them) keeps its active
\* memtable, its imm_memtables, its l0_sstables and its sstables; and the
\* version the lock points to has the changes of every version before it: it
\* refers to every memtable and run they refer to (but the memtables a flush
\* in progress has popped), and has every run and handle they have.
C29_VersionsImmutable ==
  /\ [][\A i \in 1..Len(scan_res.heap) :
          /\ i <= Len(scan_res'.heap)
          /\ scan_res'.heap[i] = scan_res.heap[i]]_vars
  /\ [](/\ state = scan_res.heap[Len(scan_res.heap)]
        /\ \A i \in 1..Len(scan_res.heap) :
             /\ Refers(scan_res.heap[i]) \subseteq Refers(state) \cup flushing
             /\ RunsOf(scan_res.heap[i]) \subseteq RunsOf(state)
             /\ \A id \in DOMAIN scan_res.heap[i].sstables :
                  /\ id \in DOMAIN state.sstables
                  /\ state.sstables[id] = scan_res.heap[i].sstables[id])

\* A reader holds a version since which a freeze and a flush have installed
\* theirs, while a writer changes its clone.
C29_ReaderHoldsOldVersion ==
  /\ scan_res.stage = "versions"
  /\ \E t, u \in Threads :
       /\ scan_res.th[t].ptr # 0
       /\ scan_res.heap[scan_res.th[t].ptr].memtable # state.memtable
       /\ scan_res.heap[scan_res.th[t].ptr].l0_sstables # state.l0_sstables
       /\ scan_res.writer = u

\* Every id of the version's l0_sstables has a handle in its sstables, the
\* handle of the run of that id.
Resolves(version) ==
  \A id \in RunsOf(version) :
    /\ id \in DOMAIN version.sstables
    /\ version.sstables[id].id = id

\* C30: under any interleaving, in every version published by open,
\* force_freeze_memtable or force_flush_next_imm_memtable every id of
\* l0_sstables has its handle in sstables, so the lookup of each L0 id that
\* get and scan make in the snapshot they hold finds it.
C30_IdResolution ==
  scan_res.stage = "versions"
    => /\ \A i \in 1..Len(scan_res.heap) : Resolves(scan_res.heap[i])
       /\ \A t \in Threads :
            scan_res.th[t].ptr # 0 => Resolves(scan_res.heap[scan_res.th[t].ptr])

\* A reader holds a version that has a run, and a flush has installed another
\* run since.
C30_SnapshotWithRun ==
  /\ scan_res.stage = "versions"
  /\ \E t \in Threads :
       /\ scan_res.th[t].ptr # 0
       /\ Len(scan_res.heap[scan_res.th[t].ptr].l0_sstables) = 1
       /\ Len(state.l0_sstables) = 2

\* The ids of the active memtable, of the immutable memtables and of the L0
\* runs of the state, in this order.
StateIds ==
  <<mems[state.memtable].id>>
    \o [i \in 1..Len(state.imm_memtables) |-> mems[state.imm_memtables[i]].id]
    \o [i \in 1..Len(state.l0_sstables) |-> state.sstables[state.l0_sstables[i]].id]

\* C31: in every reachable state, with freezes and flushes requested
\* concurrently, the ids of the active memtable, of the immutable memtables
\* and of the L0 runs are pairwise distinct.
C31_IdUniqueness ==
  \A i, j \in 1..Len(StateIds) : i < j => StateIds[i] # StateIds[j]

\* A thread is about to swap in the memtable of the id it took while another
\* thread is in a call, with an immutable memtable or a run in place.
C31_ConcurrentFreezes ==
  /\ scan_res.stage = "lock"
  /\ Len(StateIds) > 1
  /\ \E t, u \in Threads :
       /\ scan_res.th[t].pc = "freeze_swap"
       /\ u # t
       /\ InCall(u)

\* The inputs of a MergeIterator, in the heap or current, that are on the key
\* of current and whose next() returns an error.
FailingInputs(m) ==
  {w \in m.iters \cup {m.current[1]} :
     /\ LeafKey(w.it) = LeafKey(m.current[1].it)
     /\ LeafNext(w.it).err}

\* C32: when MergeIterator::next returns the error of the next() of an input,
\* an input whose next() fails is no longer in the heap and is_valid() is
\* false from then on.
C32_MergeErrorTerminal ==
  [][(scan_res.stage = "merge" /\ scan_res.last_next # "Err"
        /\ scan_res'.stage = "merge" /\ scan_res'.last_next = "Err")
       => /\ ~MergeIterIsValid(scan_res'.it)
          /\ \E w \in FailingInputs(scan_res.it) :
               \A o \in scan_res'.it.iters : o.idx # w.idx]_vars

\* C33: after MergeIterator::create and after every successful next() that
\* leaves the iterator valid, every iterator in the heap is valid, and
\* current orders before the heap top: its key is smaller, or the keys are
\* equal and its index is smaller.
C33_HeapInvariant ==
  (scan_res.stage = "merge" /\ scan_res.last_next # "Err"
     /\ MergeIterIsValid(scan_res.it))
    => /\ \A w \in scan_res.it.iters : LeafIsValid(w.it)
       /\ scan_res.it.iters # {} =>
            With(HeapPeek(scan_res.it.iters), LAMBDA top :
              With(BytesCmp(MergeIterKey(scan_res.it), LeafKey(top.it)), LAMBDA c :
                \/ c = "Less"
                \/ c = "Equal" /\ scan_res.it.current[1].idx < top.idx))

\* A successful next() has left the iterator valid with the heap top on the
\* key of current.
C33_EqualKeysAfterNext ==
  /\ scan_res.stage = "merge"
  /\ scan_res.last_next = "Ok"
  /\ MergeIterIsValid(scan_res.it)
  /\ scan_res.it.iters # {}
  /\ LeafKey(HeapPeek(scan_res.it.iters).it) = MergeIterKey(scan_res.it)

\* C34: BlockBuilder::add returns false exactly when an entry has been
\* accepted before and data_len + key_len + value_len + 2 * offsets_count + 8
\* exceeds block_size; a rejected add leaves offsets, data and first_key as
\* they were; is_empty() is true exactly when no entry has been accepted.
C34_AcceptanceRule ==
  [][(scan_res.stage = "builder" /\ scan_res'.stage = "builder")
       => LET b == scan_res.builder
              after == scan_res'.builder
              full == Len(b.data) + Len(scan_res'.key) + Len(scan_res'.value)
                      + 2 * Len(b.offsets) + 8 > b.block_size
          IN /\ ~scan_res'.accepted <=> (scan_res.added # <<>> /\ full)
             /\ ~scan_res'.accepted =>
                  /\ after.offsets = b.offsets
                  /\ after.data = b.data
                  /\ after.first_key = b.first_key
             /\ BlockBuilderIsEmpty(b) <=> scan_res.added = <<>>
             /\ BlockBuilderIsEmpty(after) <=> scan_res'.added = <<>>]_vars

\* An empty builder has accepted an entry larger than its block size, and a
\* later add was rejected.
C34_OversizedFirstThenRejected ==
  /\ scan_res.stage = "builder"
  /\ Len(scan_res.added) = 1
  /\ Len(scan_res.added[1][1]) + Len(scan_res.added[1][2]) > scan_res.builder.block_size
  /\ scan_res.adds > 1
  /\ ~scan_res.accepted

\* The byte position in the data of a block of entry i (from 1) of the
\* entries added: each entry before it takes its key, its value and two
\* 2-byte lengths.
RECURSIVE EntryPosition(_, _)
EntryPosition(added, i) ==
  IF i = 1 THEN 0
  ELSE EntryPosition(added, i - 1)
       + SIZEOF_U16 + Len(added[i - 1][1]) + SIZEOF_U16 + Len(added[i - 1][2])

\* C35: in the block BlockBuilder::build makes of the entries accepted, with
\* any block size (that of force_flush_next_imm_memtable included), the
\* offsets are strictly increasing, offsets[i] is the byte position of entry i
\* in data, and the key_len and value_len stored there are the lengths of the
\* key and of the value.
C35_OffsetsExact ==
  scan_res.stage = "builder"
    => LET block == BlockBuilderBuild(scan_res.builder)
           added == scan_res.added
       IN /\ Len(block.offsets) = Len(added)
          /\ \A i \in 1..Len(added) :
               LET pos == EntryPosition(added, i)
                   key_len == Len(added[i][1])
               IN /\ block.offsets[i] = pos
                  /\ i > 1 => block.offsets[i - 1] < block.offsets[i]
                  /\ pos + SIZEOF_U16 + key_len + SIZEOF_U16 <= Len(block.data)
                  /\ U16FromBE(block.data[pos + 1], block.data[pos + 2]) = key_len
                  /\ U16FromBE(block.data[pos + key_len + 3],
                               block.data[pos + key_len + 4]) = Len(added[i][2])

\* C36: in a run SsTableBuilder::build makes of one entry or more, added in
\* strictly ascending key order, there is one BlockMeta record for each
\* encoded block, block_meta[j].offset is the byte position at which block j
\* starts, block_meta_offset is the position at which the encoded meta
\* records start, the last key of a block is smaller than the first key of
\* the next, and the first key of the first block and the last key of the
\* last block are first_key and last_key of the run.
C36_RunLayout ==
  (scan_res.stage = "runbuilt" /\ scan_res.added # <<>>)
    => LET t == scan_res.it
           starts == scan_res.starts
           n == Len(t.block_meta)
       IN /\ n = Len(starts)
          /\ \A j \in 1..n : j <= Len(starts) => t.block_meta[j].offset = starts[j]
          /\ t.block_meta_offset + 4 <= Len(t.file)
          /\ SubSeq(t.file, t.block_meta_offset + 1, Len(t.file) - 4)
               = EncodeBlockMeta(t.block_meta)
          /\ \A j \in 1..(n - 1) :
               BytesCmp(t.block_meta[j].last_key, t.block_meta[j + 1].first_key) = "Less"
          /\ t.block_meta[1].first_key = t.first_key
          /\ t.block_meta[n].last_key = t.last_key

\* The summed lengths of the values of a list.
RECURSIVE SumLen(_)
SumLen(values) == IF values = <<>> THEN 0 ELSE Len(Head(values)) + SumLen(Tail(values))

\* The summed key and value lengths of the puts a history holds.
RECURSIVE PutBytes(_, _)
PutBytes(history, keys) ==
  IF keys = {} THEN 0
  ELSE With(CHOOSE k \in keys : TRUE, LAMBDA k :
         Len(history[k]) * Len(k) + SumLen(history[k]) + PutBytes(history, keys \ {k}))

\* C37: a memtable that has received no put has approximate_size 0, each put
\* adds the length of its key and of its value to the approximate_size of the
\* active memtable, no step decreases an approximate_size, and a put that
\* freezes the first memtable comes when the summed key and value lengths of
\* the puts made exceed target_sst_size.
C37_FreezeCountsBytes ==
  [][/\ \A id \in DOMAIN mems' : mems'[id].map = <<>> => mems'[id].approximate_size = 0
     /\ \A id \in DOMAIN mems \cap DOMAIN mems' :
          mems'[id].approximate_size >= mems[id].approximate_size
     /\ puts' = puts + 1 =>
          /\ mems'[state.memtable].approximate_size
               = mems[state.memtable].approximate_size
                 + (PutBytes(ref', Keys) - PutBytes(ref, Keys))
          /\ (state.memtable = 0 /\ state'.memtable # 0)
               => PutBytes(ref', Keys) > target_sst_size]_vars

\* C38: with a block cache attached, a read_block_cached(i) whose key
\* (id, i) is in the cache calls read_block not at all and returns the cached
\* block, and one whose key is not in the cache calls read_block at most
\* once; with no cache attached it returns what read_block(i) returns, the
\* error for i >= block count included.
C38_CacheBeforeFile ==
  [][(scan_res.stage = "cache" /\ scan_res'.stage = "cache")
       => LET t == scan_res.it
              i == scan_res'.block_idx
          IN IF scan_res.block_cache # None
             THEN IF <<t.id, i>> \in DOMAIN scan_res.block_cache[1]
                  THEN /\ scan_res'.reads = 0
                       /\ scan_res'.status = "Ok"
                       /\ scan_res'.block = scan_res.block_cache[1][<<t.id, i>>]
                  ELSE scan_res'.reads <= 1
             ELSE /\ scan_res'.status = ReadBlock(t, i).status
                  /\ scan_res'.status = "Ok" => scan_res'.block = ReadBlock(t, i).block
                  /\ i >= Len(t.block_meta) => scan_res'.status = "Err"]_vars

\* The entries of a map whose keys are within the bounds, in ascending key
\* order.
EntriesWithin(map, lower, upper) ==
  LET ks == Ascending({k \in DOMAIN map : InLower(k, lower) /\ InUpper(k, upper)})
  IN [i \in 1..Len(ks) |-> <<ks[i], map[ks[i]]>>]

\* C39: the MemTableIterator of MemTable::scan(lower, upper) emits the
\* entries of the map whose keys are within the bounds, in ascending key
\* order, and is invalid only when it has emitted all of them, whatever keys
\* were put, the key of no bytes included.
C39_RangeComplete ==
  scan_res.stage = "memscan"
    => LET expected == EntriesWithin(mems[0].map, scan_res.lower, scan_res.upper)
       IN /\ IsPrefix(scan_res.emitted, expected)
          /\ MemTableIterIsValid(scan_res.it) => scan_res.emitted # <<>>
          /\ ~MemTableIterIsValid(scan_res.it) => scan_res.emitted = expected

\* The number a sequence of decimal digits stands for.
RECURSIVE ParseDecimal(_)
ParseDecimal(digits) ==
  IF digits = <<>> THEN 0
  ELSE 10 * ParseDecimal(SubSeq(digits, 1, Len(digits) - 1))
       + (CHOOSE d \in 0..9 : DigitChar(d) = digits[Len(digits)])

\* C40: the file force_flush_next_imm_memtable writes for the run with id n
\* is in the directory of the engine, its name is the decimal id in five
\* digits or more, zeros in front, followed by ".sst", and its path is the
\* one path_of_sst(n) returns.
C40_RunFileName ==
  scan_res.stage = "name"
    => LET name == scan_res.written[Len(scan_res.written)]
           stem == SubSeq(name, 1, Len(name) - 4)
       IN /\ scan_res.written = scan_res.path_of_sst
          /\ SubSeq(scan_res.written, 1, Len(scan_res.written) - 1) = scan_res.path
          /\ SubSeq(name, Len(name) - 3, Len(name)) = <<".", "s", "s", "t">>
          /\ Len(stem) >= 5
          /\ ParseDecimal(stem) = scan_res.id

====
